---- MODULE Spec2Model ----
(***************************************************************************)
(* A model of rustnish, a caching reverse HTTP proxy.                       *)
(*                                                                         *)
(*   - the memory limited LRU store of src/src/cache.rs (LruCache): the    *)
(*     map, the recency list, the two memory counters and every public     *)
(*     operation, each taken as one atomic step at one reading of the      *)
(*     clock (the store is only reached through a mutex, src/src/lib.rs    *)
(*     164), with the clock advancing between calls;                       *)
(*   - the key derivation of src/src/lib.rs (Cache::cache_key), a pure     *)
(*     function of the request;                                            *)
(*   - the cachability policy (Cache::get_max_age), the request rewriter   *)
(*     and the response decorator of Proxy::call, pure functions of the    *)
(*     response and of the request, each under a specification of its own; *)
(*   - the proxy (Proxy::call and the closure it hands to the upstream     *)
(*     exchange, Cache::lookup and Cache::store) serving one request at a  *)
(*     time, with an upstream that answers, fails or is down;              *)
(*   - the memory footprint of an entry (CachedResponse::get_memory_size), *)
(*     under a specification of its own;                                   *)
(*   - the server (start_server_blocking, start_server_background_memory): *)
(*     the bind, the acceptor and the connections it spawns;               *)
(*   - requests side by side: two workers over one cache and its mutex,    *)
(*     Cache::lookup and Cache::store taken step by step, with an upstream *)
(*     that may also stay silent, and one worker under the fairness of the *)
(*     runtime for the claims on termination.                              *)
(*                                                                         *)
(* usize arithmetic is modelled on the integers: the counters are sums of  *)
(* resident sizes, each at most max_memory_size, and the model keeps       *)
(* max_memory_size far below usize::MAX / 2.                               *)
(*                                                                         *)
(* The claims on the store are stated of its operations as functions of    *)
(* the store: an invariant quantifies over every call that may follow in   *)
(* a reachable state and speaks of what that call returns and leaves.      *)
(***************************************************************************)
EXTENDS Integers, Sequences, FiniteSets, TLC

\* ------------------------------------------------------------------ bounds

\* Instants, of the clock and of expiry alike, are 0..MaxTime.
MaxTime == 1

\* The largest memory budget a store is constructed with. An item costs at least
\* one byte (a CachedResponse costs at least its struct, lib.rs 149) and at most
\* one byte more than the largest budget.
MaxBytes == 3

\* The most Cookie header lines a request carries.
MaxCookies == 2

\* Keys of the store (String in lib.rs 164, any Ord + Clone type in cache.rs 132).
Keys == {"/", "/a", "/b"}

\* Values of the store (opaque to the store).
Values == {"v1", "v2"}

\* Option::None, for keys and values alike.
None == "None"

Expiries == 0..MaxTime

Sizes == 1..(MaxBytes + 1)

\* ------------------------------------------------------------------- state

VARIABLES
    map,                  \* LruCache.map: key -> [value, expires, size]
    list,                 \* LruCache.list: recency order, front = least recent
    max_memory_size,      \* LruCache.max_memory_size
    current_memory_size,  \* LruCache.current_memory_size
    now,                  \* Instant::now()
    aborted,              \* which expect() of insert panicked, "none" if none
    request,              \* the request handed to cache_key
    key_out,              \* what cache_key returned for it
    response,             \* the response of upstream, as the proxy received it
    max_age_out,          \* what get_max_age returned for it
    forwarded,            \* the request as upstream saw it
    reply,                \* the response as the client saw it
    pc,                   \* where the request in flight is in Proxy::call
    upstream,             \* whether upstream is running
    proxy,                \* Proxy: port, upstream_port, source_address
    result,               \* how the exchange with upstream went
    cache_entry,          \* the CachedResponse handed to get_memory_size
    memory_size_out,      \* what get_memory_size returned for it
    server,               \* how far start_server_blocking and the acceptor are
    error_chain,          \* the error start_server_blocking returned, outermost first
    connections,          \* the connections of clients, each with its state
    workers,              \* the requests in flight side by side, each with its state
    mutex                 \* the holder of the lock of Cache.lru_cache, None if free

vars == <<map, list, max_memory_size, current_memory_size, now, aborted,
          request, key_out, response, max_age_out, forwarded, reply, pc,
          upstream, proxy, result, cache_entry, memory_size_out, server,
          error_chain, connections, workers, mutex>>

lru_vars == <<map, list, max_memory_size, current_memory_size, now, aborted>>

key_vars == <<request, key_out>>

proxy_vars ==
    <<response, max_age_out, forwarded, reply, pc, upstream, proxy, result>>

size_vars == <<cache_entry, memory_size_out>>

server_vars == <<server, error_chain, connections>>

worker_vars == <<workers, mutex>>

\* What the store, the key derivation and the single request leave alone.
other_vars == <<size_vars, server_vars, worker_vars>>

\* The store as one value, for the operators below.
Cache == [map |-> map, list |-> list, current_memory_size |-> current_memory_size]

\* ------------------------------------------------------- LruCache operators

\* BTreeMap::remove on the map alone.
MapRemove(m, key) == [x \in (DOMAIN m) \ {key} |-> m[x]]

\* BTreeMap::insert on the map alone.
MapInsert(m, key, entry) ==
    [x \in (DOMAIN m) \cup {key} |-> IF x = key THEN entry ELSE m[x]]

\* list.iter().position(|l| l == key): the first index holding key, 0 if none.
Position(l, key) ==
    IF \E i \in 1..Len(l) : l[i] = key
    THEN CHOOSE i \in 1..Len(l) : l[i] = key /\ \A j \in 1..(i - 1) : l[j] # key
    ELSE 0

\* .map(|p| self.list.remove(p)) on the position found, if one was found.
ListRemoveAt(l, p) ==
    IF p = 0 THEN l ELSE SubSeq(l, 1, p - 1) \o SubSeq(l, p + 1, Len(l))

\* VecDeque::swap_remove_back(p): the last key takes the place of the removed one.
ListSwapRemoveAt(l, p) ==
    IF p = 0
    THEN l
    ELSE IF p = Len(l)
    THEN SubSeq(l, 1, Len(l) - 1)
    ELSE SubSeq(l, 1, p - 1) \o <<l[Len(l)]>> \o SubSeq(l, p + 1, Len(l) - 1)

\* Faulty variant of remove: the size of the removed entry is not subtracted.
\* C2_UsedIsSum does not survive it.
remove_KeepsCount(c, key) ==
    IF key \in DOMAIN c.map
    THEN [cache |->
            [map |-> MapRemove(c.map, key),
             list |-> ListRemoveAt(c.list, Position(c.list, key)),
             current_memory_size |-> c.current_memory_size],
          ret |-> c.map[key].value]
    ELSE [cache |-> c, ret |-> None]

\* Faulty variant of remove: the key leaves the list by swap_remove_back, which
\* disturbs the recency order. C7_OversizeFrameUnexpired does not survive it.
remove_SwapRemove(c, key) ==
    IF key \in DOMAIN c.map
    THEN [cache |->
            [map |-> MapRemove(c.map, key),
             list |-> ListSwapRemoveAt(c.list, Position(c.list, key)),
             current_memory_size |-> c.current_memory_size - c.map[key].size],
          ret |-> c.map[key].value]
    ELSE [cache |-> c, ret |-> None]

\* LruCache::remove: the entry leaves the map, its first position leaves the
\* list, its size is subtracted; the value is returned.
remove(c, key) ==
    IF key \in DOMAIN c.map
    THEN [cache |->
            [map |-> MapRemove(c.map, key),
             list |-> ListRemoveAt(c.list, Position(c.list, key)),
             current_memory_size |-> c.current_memory_size - c.map[key].size],
          ret |-> c.map[key].value]
    ELSE [cache |-> c, ret |-> None]

\* Faulty variant of ExpiredKeys: an entry expiring at this very instant is
\* swept too. C6_OversizeSweepsAndRemoves does not survive it.
ExpiredKeys_Inclusive(c, t) == {k \in DOMAIN c.map : c.map[k].expires <= t}

\* The keys remove_expired collects: expires < Instant::now().
ExpiredKeys(c, t) == {k \in DOMAIN c.map : c.map[k].expires < t}

RECURSIVE RemoveAll(_, _)
\* for key in remove_entries { self.remove(&key) }
RemoveAll(c, keys) ==
    IF keys = {}
    THEN c
    ELSE LET k == CHOOSE x \in keys : TRUE
         IN  RemoveAll(remove(c, k).cache, keys \ {k})

\* Faulty variant of remove_expired: the expired entries leave the map and
\* the counter, and their keys stay in the list. C36_InsertNeverAborts does
\* not survive it.
remove_expired_MapOnly(c, t) ==
    [RemoveAll(c, ExpiredKeys(c, t)) EXCEPT !.list = c.list]

\* LruCache::remove_expired.
remove_expired(c, t) == RemoveAll(c, ExpiredKeys(c, t))

\* Faulty variant of Fits: an item of exactly the budget is turned away.
\* C9_ExactSizeFits does not survive it.
Fits_Strict(memory_size, max) == memory_size < max

\* The guard of insert: the new item may be stored at all.
Fits(memory_size, max) == memory_size <= max

\* Faulty variant of NeedsRoom: the size of the incoming item is forgotten.
\* C1_UsedWithinMax does not survive it.
NeedsRoom_IgnoresIncoming(c, memory_size, max) == max < c.current_memory_size

\* Faulty variant of NeedsRoom: the loop evicts although the item fits exactly,
\* and pops an empty list when the store is empty.
\* C5_GetAfterFittingInsert does not survive it.
NeedsRoom_OffByOne(c, memory_size, max) == max <= c.current_memory_size + memory_size

\* The condition of insert's while loop: room is still missing.
NeedsRoom(c, memory_size, max) == max < c.current_memory_size + memory_size

RECURSIVE EvictLoop(_, _, _, _)
\* The while loop of insert: pop the front of the list and remove it from the
\* map until the new item has room. Either expect() may panic.
EvictLoop(c, memory_size, max, evicted) ==
    IF ~NeedsRoom(c, memory_size, max)
    THEN [cache |-> c, evicted |-> evicted, abort |-> "none"]
    ELSE IF c.list = <<>>
    THEN [cache |-> c, evicted |-> evicted, abort |-> "queue_empty"]
    ELSE IF Head(c.list) \notin DOMAIN c.map
    THEN [cache |-> [c EXCEPT !.list = Tail(c.list)],
          evicted |-> evicted, abort |-> "shrink_failed"]
    ELSE EvictLoop(
            [map |-> MapRemove(c.map, Head(c.list)),
             list |-> Tail(c.list),
             current_memory_size |->
                 c.current_memory_size - c.map[Head(c.list)].size],
            memory_size, max, Append(evicted, Head(c.list)))

\* Faulty variant of insert_evicted: the new key is pushed to the front of the
\* list, where the next eviction takes it first. C32_EvictsShortestPrefix does
\* not survive it.
insert_evicted_PushFront(e, old_value, key, value, memory_size, expires) ==
    IF e.abort # "none"
    THEN [cache |-> e.cache, ret |-> None, evicted |-> e.evicted, abort |-> e.abort]
    ELSE [cache |->
            [map |-> MapInsert(e.cache.map, key,
                        [value |-> value, expires |-> expires,
                         size |-> memory_size]),
             list |-> <<key>> \o e.cache.list,
             current_memory_size |-> e.cache.current_memory_size + memory_size],
          ret |-> old_value, evicted |-> e.evicted, abort |-> "none"]

\* The end of insert once the loop is over: lines 171 to 174, unless an
\* expect() of the loop has panicked.
insert_evicted(e, old_value, key, value, memory_size, expires) ==
    IF e.abort # "none"
    THEN [cache |-> e.cache, ret |-> None, evicted |-> e.evicted, abort |-> e.abort]
    ELSE [cache |->
            [map |-> MapInsert(e.cache.map, key,
                        [value |-> value, expires |-> expires,
                         size |-> memory_size]),
             list |-> Append(e.cache.list, key),
             current_memory_size |-> e.cache.current_memory_size + memory_size],
          ret |-> old_value, evicted |-> e.evicted, abort |-> "none"]

\* Faulty variant of insert_removed: an item that is turned away gives None,
\* whatever was under its key. C31_InsertReturnsUnexpiredPrior does not
\* survive it.
insert_removed_RejectGivesNone(old, max, key, value, memory_size, expires) ==
    IF Fits(memory_size, max)
    THEN insert_evicted(EvictLoop(old.cache, memory_size, max, <<>>),
                        old.ret, key, value, memory_size, expires)
    ELSE [cache |-> old.cache, ret |-> None, evicted |-> <<>>, abort |-> "none"]

\* insert from line 158 on: old is what self.remove(&key) returned and left.
insert_removed(old, max, key, value, memory_size, expires) ==
    IF Fits(memory_size, max)
    THEN insert_evicted(EvictLoop(old.cache, memory_size, max, <<>>),
                        old.ret, key, value, memory_size, expires)
    ELSE [cache |-> old.cache, ret |-> old.ret, evicted |-> <<>>, abort |-> "none"]

\* Faulty variant of insert: the entry under the key is not removed before
\* the loop, so that its bytes are still counted when room is made.
\* C33_ReinsertReclaimsFirst does not survive it.
insert_KeepsOld(c, max, key, value, memory_size, expires, t) ==
    insert_removed([cache |-> remove_expired(c, t), ret |-> None],
                   max, key, value, memory_size, expires)

\* LruCache::insert. Next to the value returned, the result names the keys the
\* loop evicted, in order, and the expect() that panicked, if one did.
insert(c, max, key, value, memory_size, expires, t) ==
    insert_removed(remove(remove_expired(c, t), key),
                   max, key, value, memory_size, expires)

\* Faulty variant of update_key: the key is pushed to the back without leaving
\* its old position. C3_SameKeys does not survive it.
update_key_PushOnly(l, key) == Append(l, key)

\* Faulty variant of update_key: the key stays where it is.
\* C8_GetProtects does not survive it.
update_key_NoMove(l, key) == l

\* LruCache::update_key: move key to the back of the list.
update_key(l, key) ==
    IF Position(l, key) # 0
    THEN Append(ListRemoveAt(l, Position(l, key)), key)
    ELSE l

\* get after its sweep: lines 212 to 216.
get_swept(swept, key) ==
    IF key \in DOMAIN swept.map
    THEN [cache |-> [swept EXCEPT !.list = update_key(swept.list, key)],
          ret |-> swept.map[key].value]
    ELSE [cache |-> swept, ret |-> None]

\* Faulty variant of get: the lookup runs without the sweep before it.
\* C35_SweepFirst does not survive it.
get_NoSweep(c, key, t) == get_swept(c, key)

\* LruCache::get.
get(c, key, t) == get_swept(remove_expired(c, t), key)

\* The filter of peek and len: *t >= Instant::now().
NotExpired(expires, t) == expires >= t

\* LruCache::peek.
peek(c, key, t) ==
    IF key \in DOMAIN c.map /\ NotExpired(c.map[key].expires, t)
    THEN c.map[key].value
    ELSE None

\* LruCache::contains_key.
contains_key(c, key, t) == peek(c, key, t) # None

\* LruCache::len.
len(c, t) == Cardinality({k \in DOMAIN c.map : NotExpired(c.map[k].expires, t)})

\* LruCache::is_empty.
is_empty(c, t) == len(c, t) = 0

\* The keys in the order of the BTreeMap (Ord of String).
KeysInOrder == <<"/", "/a", "/b">>

\* What Iter::next yields, in order: the entries with instant > now.
IterKeys(c, t) ==
    SelectSeq(KeysInOrder, LAMBDA k : k \in DOMAIN c.map /\ c.map[k].expires > t)

RECURSIVE IterVisit(_, _)
\* Iter::next on each of keys in turn: update_key on the list.
IterVisit(l, keys) ==
    IF keys = <<>> THEN l ELSE IterVisit(update_key(l, Head(keys)), Tail(keys))

\* LruCache::iter, and n calls of next on the iterator it returns.
iter(c, n, t) ==
    [remove_expired(c, t) EXCEPT
        !.list = IterVisit(@, SubSeq(IterKeys(c, t), 1, n))]

\* ------------------------------------------------------------ Cache::cache_key

\* Option<String>.
NoKey == [some |-> FALSE, v |-> ""]

SomeKey(str) == [some |-> TRUE, v |-> str]

\* What key_out holds before cache_key has returned.
Pending == [done |-> FALSE, key |-> NoKey]

\* Header values are sequences of characters, one string each; "<c3a9>" is a
\* character outside ASCII (two bytes of UTF-8).
Upper ==
    {"A", "B", "C", "D", "E", "F", "G", "H", "I", "J", "K", "L", "M",
     "N", "O", "P", "Q", "R", "S", "T", "U", "V", "W", "X", "Y", "Z"}

Lower ==
    {"a", "b", "c", "d", "e", "f", "g", "h", "i", "j", "k", "l", "m",
     "n", "o", "p", "q", "r", "s", "t", "u", "v", "w", "x", "y", "z"}

Digit == {"0", "1", "2", "3", "4", "5", "6", "7", "8", "9"}

\* The class [A-Za-z0-9_] of the regular expression.
WordByte == Upper \cup Lower \cup Digit \cup {"_"}

\* The bytes HeaderValue::to_str accepts.
VisibleAscii == WordByte \cup {"=", ";", " ", "-", ",", "+", ".", "/", ":"}

\* HeaderValue::to_str(): Ok only if every byte is visible ASCII.
to_str_ok(value) == \A i \in 1..Len(value) : value[i] \in VisibleAscii

\* Regex::new(r"SESS[A-Za-z0-9_]+=").is_match(text): the pattern occurs
\* somewhere in text: SESS at i, one or more word bytes, then = at j.
is_match(text) ==
    \E i \in 1..Len(text), j \in 1..Len(text) :
        /\ i + 4 < j
        /\ text[i] = "S" /\ text[i + 1] = "E"
        /\ text[i + 2] = "S" /\ text[i + 3] = "S"
        /\ \A m \in (i + 4)..(j - 1) : text[m] \in WordByte
        /\ text[j] = "="

\* http::Uri as Display writes it (request.uri().to_string()): scheme and
\* authority when the request target is in absolute form, the path, and the
\* query after a question mark. A Uri holds no fragment.
uri_to_string(uri) ==
    (IF uri.authority # None THEN "http://" \o uri.authority ELSE "")
        \o uri.path
        \o (IF uri.query # None THEN "?" \o uri.query ELSE "")

\* HeaderMap::get(COOKIE): the first value under the name, if any.
first_cookie(req) == IF req.cookies # <<>> THEN <<req.cookies[1]>> ELSE <<>>

\* Cache::cache_key.
cache_key(req) ==
    IF req.method # "GET"
    THEN NoKey
    ELSE IF /\ first_cookie(req) # <<>>
            /\ to_str_ok(first_cookie(req)[1])
            /\ is_match(first_cookie(req)[1])
    THEN NoKey
    ELSE SomeKey(uri_to_string(req.uri))

\* The requests cache_key is applied to.
Methods == {"GET", "POST", "HEAD"}

CookieValues ==
    { <<"S", "E", "S", "S", "1", "=", "x">>,
      <<"a", "=", "1">>,
      <<"a", "=", "1", ";", " ", "S", "E", "S", "S", "a", "_", "1", "=", "x">>,
      <<"S", "E", "S", "S", "=", "x">>,
      <<"s", "e", "s", "s", "1", "=", "x">>,
      <<"S", "E", "S", "S", "-", "1", "=", "x">>,
      <<"S", "E", "S", "S", "1">>,
      <<"X", "S", "E", "S", "S", "1", "=", "x">>,
      <<"S", "E", "S", "S", "1", "=", "<c3a9>">> }

RECURSIVE SeqsUpTo(_, _)
\* The sequences over S of length at most n.
SeqsUpTo(S, n) ==
    IF n = 0
    THEN {<<>>}
    ELSE LET shorter == SeqsUpTo(S, n - 1)
         IN  shorter \cup {Append(q, x) : q \in shorter, x \in S}

Uris ==
    [authority : {None, "example.com"}, path : {"/", "/test"}, query : {None, "a=1"}]

Requests ==
    [method : Methods, cookies : SeqsUpTo(CookieValues, MaxCookies), uri : Uris]

\* No request: what request holds where none is handled and what forwarded
\* holds while nothing has been sent to upstream.
NoRequest ==
    [method |-> "GET", cookies |-> <<>>,
     uri |-> [authority |-> None, path |-> "/", query |-> None]]

\* --------------------------------------------------------------- HeaderMap

\* http::HeaderMap: one entry per header name, in the order the names were
\* first added, each with its values in the order they were added. Names are
\* lower case strings (HeaderName), values are sequences of characters
\* (HeaderValue).
NoHeaders == <<>>

\* The index of the entry of name in headers, 0 if there is none.
find(headers, name) ==
    IF \E i \in 1..Len(headers) : headers[i].name = name
    THEN CHOOSE i \in 1..Len(headers) : headers[i].name = name
    ELSE 0

\* HeaderMap::contains_key.
header_contains_key(headers, name) == find(headers, name) # 0

\* HeaderMap::get_all: every value under the name, in order.
get_all(headers, name) ==
    IF find(headers, name) = 0 THEN <<>> ELSE headers[find(headers, name)].values

\* HeaderMap::append: the value is added after the values the name has.
header_append(headers, name, value) ==
    IF find(headers, name) = 0
    THEN Append(headers, [name |-> name, values |-> <<value>>])
    ELSE [headers EXCEPT ![find(headers, name)].values = Append(@, value)]

\* HeaderMap::insert: the value replaces the values the name has.
header_insert(headers, name, value) ==
    IF find(headers, name) = 0
    THEN Append(headers, [name |-> name, values |-> <<value>>])
    ELSE [headers EXCEPT ![find(headers, name)].values = <<value>>]

\* A header map of one name, none if there are no values.
one_header(name, values) ==
    IF values = <<>> THEN NoHeaders ELSE <<[name |-> name, values |-> values]>>

\* http::Response. The body is a stream: the sequence of the chunks it emits,
\* each a sequence of bytes.
Response(status, version, headers, body) ==
    [status |-> status, version |-> version, headers |-> headers, body |-> body]

\* --------------------------------------------------------- Cache::get_max_age

\* Option<u64>.
NoAge == [some |-> FALSE, v |-> 0]

SomeAge(n) == [some |-> TRUE, v |-> n]

DecimalDigits == <<"0", "1", "2", "3", "4", "5", "6", "7", "8", "9">>

RECURSIVE split(_, _)
\* str::split(sep): the pieces between the separators, empty ones included;
\* a text without separator is one piece.
split(text, sep) ==
    IF \E i \in 1..Len(text) : text[i] = sep
    THEN LET i == CHOOSE x \in 1..Len(text) :
                      /\ text[x] = sep
                      /\ \A y \in 1..(x - 1) : text[y] # sep
         IN  <<SubSeq(text, 1, i - 1)>> \o split(SubSeq(text, i + 1, Len(text)), sep)
    ELSE <<text>>

\* The value of a decimal digit.
digit_value(c) == (CHOOSE i \in 1..Len(DecimalDigits) : DecimalDigits[i] = c) - 1

RECURSIVE decimal(_)
\* The number a sequence of decimal digits writes.
decimal(digits) ==
    IF digits = <<>>
    THEN 0
    ELSE 10 * decimal(SubSeq(digits, 1, Len(digits) - 1))
             + digit_value(digits[Len(digits)])

\* str::parse::<u64>(): an optional plus sign, then one digit or more and
\* nothing else (no space, no minus sign). The texts of the model write
\* numbers far below 2^64, where parse reports an overflow.
parse(text) ==
    LET digits == IF text # <<>> /\ text[1] = "+"
                  THEN SubSeq(text, 2, Len(text))
                  ELSE text
    IN  IF /\ digits # <<>>
           /\ \A i \in 1..Len(digits) :
                  \E d \in 1..Len(DecimalDigits) : DecimalDigits[d] = digits[i]
        THEN [ok |-> TRUE, value |-> decimal(digits)]
        ELSE [ok |-> FALSE, value |-> 0]

PUBLIC == <<"p", "u", "b", "l", "i", "c">>

MAX_AGE == <<"m", "a", "x", "-", "a", "g", "e">>

\* The body of the inner loop, lib.rs 254-266, for one piece: acc holds the
\* locals public and max_age.
comma_value_step(acc, comma_value) ==
    IF comma_value = PUBLIC
    THEN [acc EXCEPT !.public = TRUE]
    ELSE LET equal_value == split(comma_value, "=")
         IN  IF Len(equal_value) = 2 /\ equal_value[1] = MAX_AGE
             THEN [acc EXCEPT !.max_age =
                       IF parse(equal_value[2]).ok
                       THEN parse(equal_value[2]).value
                       ELSE 0]
             ELSE acc

RECURSIVE comma_values_loop(_, _)
\* for comma_value in comma_values, lib.rs 254.
comma_values_loop(acc, comma_values) ==
    IF comma_values = <<>>
    THEN acc
    ELSE comma_values_loop(comma_value_step(acc, Head(comma_values)),
                           Tail(comma_values))

RECURSIVE cache_control_loop(_, _)
\* for header_value in cache_control, lib.rs 251: a value that is not text is
\* passed over.
cache_control_loop(acc, values) ==
    IF values = <<>>
    THEN acc
    ELSE cache_control_loop(
             IF to_str_ok(Head(values))
             THEN comma_values_loop(acc, split(Head(values), ","))
             ELSE acc,
             Tail(values))

\* Faulty variant of get_max_age: public alone makes the response cachable.
\* C11_MaxAgePolicy does not survive it.
get_max_age_PublicAlone(resp) ==
    LET acc == cache_control_loop([public |-> FALSE, max_age |-> 0],
                                  get_all(resp.headers, "cache-control"))
    IN  IF acc.public THEN SomeAge(acc.max_age) ELSE NoAge

\* Cache::get_max_age.
get_max_age(resp) ==
    LET acc == cache_control_loop([public |-> FALSE, max_age |-> 0],
                                  get_all(resp.headers, "cache-control"))
    IN  IF acc.public /\ acc.max_age > 0 THEN SomeAge(acc.max_age) ELSE NoAge

\* ------------------------------------------------------------ the rewriter

RECURSIVE to_string(_)
\* u16::to_string and u8::to_string: the decimal digits of n.
to_string(n) ==
    IF n < 10
    THEN <<DecimalDigits[n + 1]>>
    ELSE to_string(n \div 10) \o <<DecimalDigits[(n % 10) + 1]>>

\* Ipv4Addr::to_string: the four octets in decimal, dots between them.
ip_to_string(ip) ==
    to_string(ip[1]) \o <<".">> \o to_string(ip[2]) \o <<".">>
        \o to_string(ip[3]) \o <<".">> \o to_string(ip[4])

\* The text 127.0.0.1, in characters.
LOCALHOST == <<"1", "2", "7", ".", "0", ".", "0", ".", "1">>

\* Faulty variant of upstream_uri: the query of the request is left out.
\* C28_RewriterFrame does not survive it.
upstream_uri_PathOnly(req, p) ==
    [scheme |-> "http",
     authority |-> LOCALHOST \o <<":">> \o to_string(p.upstream_port),
     path |-> req.uri.path,
     query |-> None]

\* lib.rs 56-67 and 84: the target becomes http://127.0.0.1:<upstream_port>,
\* the path and the query of the request.
upstream_uri(req, p) ==
    [scheme |-> "http",
     authority |-> LOCALHOST \o <<":">> \o to_string(p.upstream_port),
     path |-> req.uri.path,
     query |-> req.uri.query]

\* Faulty variant of rewrite: the two headers replace what the client sent
\* under their names. C18_ForwardedHeaders does not survive it.
rewrite_Replaces(req, p) ==
    [req EXCEPT
        !.uri = upstream_uri(req, p),
        !.headers =
            header_insert(
                header_insert(@, "x-forwarded-for", ip_to_string(p.source_address)),
                "x-forwarded-port", to_string(p.port))]

\* Proxy::call, lines 56-96: the request as it is handed to the client.
rewrite(req, p) ==
    [req EXCEPT
        !.uri = upstream_uri(req, p),
        !.headers =
            header_append(
                header_append(@, "x-forwarded-for", ip_to_string(p.source_address)),
                "x-forwarded-port", to_string(p.port))]

\* Proxy, as start_server_background_memory builds it for a connection.
Proxies ==
    [port : {80, 9090}, upstream_port : {9091},
     source_address : {<<127, 0, 0, 1>>, <<10, 0, 0, 7>>}]

DefaultProxy ==
    [port |-> 9090, upstream_port |-> 9091, source_address |-> <<127, 0, 0, 1>>]

\* The most X-Forwarded-For header lines a request carries.
MaxForwardedFor == 2

ForwardedForValues ==
    { <<"1", ".", "2", ".", "3", ".", "4">>, <<"1", "0", ".", "0", ".", "0", ".", "7">> }

RECURSIVE with_headers(_, _, _)
\* A header map with the values appended under the name, one by one.
with_headers(headers, name, values) ==
    IF values = <<>>
    THEN headers
    ELSE with_headers(header_append(headers, name, Head(values)), name, Tail(values))

\* The headers of the requests the rewriter is applied to: an Accept header or
\* none, before or after the X-Forwarded-For lines, and an X-Forwarded-Port of
\* the client's or none.
RewriteHeaders ==
    { with_headers(
          with_headers(with_headers(first, "x-forwarded-for", xff),
                       "accept", accept),
          "x-forwarded-port", xfp) :
        first \in {NoHeaders, one_header("accept", << <<"a">> >>)},
        xff \in SeqsUpTo(ForwardedForValues, MaxForwardedFor),
        accept \in {<<>>, << <<"b">> >>},
        xfp \in {<<>>, << <<"8", "0">> >>} }

\* The requests the rewriter is applied to: every method without a body over
\* HTTP/1.1, and the POST of the test post_request, body abc, over HTTP/1.0
\* and HTTP/1.1. The body is a stream of chunks, as the body of a response is.
RewriteRequests ==
    [method : Methods, cookies : {<<>>}, uri : Uris, headers : RewriteHeaders,
     version : {"HTTP/1.1"}, body : {<<>>}]
    \cup
    [method : {"POST"}, cookies : {<<>>}, uri : Uris, headers : RewriteHeaders,
     version : {"HTTP/1.0", "HTTP/1.1"}, body : {<< <<"a", "b", "c">> >>}]

\* ----------------------------------------------------------- the decorator

\* lib.rs 103-108: the label of the response's HTTP version.
version_label(version) ==
    CASE version = "HTTP/0.9" -> <<"0", ".", "9">>
      [] version = "HTTP/1.0" -> <<"1", ".", "0">>
      [] version = "HTTP/1.1" -> <<"1", ".", "1">>
      [] version = "HTTP/2.0" -> <<"2", ".", "0">>

Versions == {"HTTP/0.9", "HTTP/1.0", "HTTP/1.1", "HTTP/2.0"}

\* The text " rustnish-0.0.1" of lib.rs 112.
RUSTNISH_VERSION ==
    <<" ", "r", "u", "s", "t", "n", "i", "s", "h", "-", "0", ".", "0", ".", "1">>

\* The text "rustnish" of lib.rs 116.
RUSTNISH == <<"r", "u", "s", "t", "n", "i", "s", "h">>

\* Faulty variant of decorate: Server is set whether upstream sent one or not.
\* C20_ServerOnce does not survive it.
decorate_SetsServer(resp) ==
    [resp EXCEPT !.headers =
        header_insert(
            header_append(@, "via", version_label(resp.version) \o RUSTNISH_VERSION),
            "server", RUSTNISH)]

\* Faulty variant of decorate: the Via value of the proxy comes before the
\* values upstream sent. C19_ViaAppended does not survive it.
decorate_ViaFirst(resp) ==
    LET via == header_insert(resp.headers, "via",
                             version_label(resp.version) \o RUSTNISH_VERSION)
        all == with_headers(via, "via", get_all(resp.headers, "via"))
    IN  [resp EXCEPT !.headers =
            IF header_contains_key(all, "server")
            THEN all
            ELSE header_insert(all, "server", RUSTNISH)]

\* Proxy::call, lines 103-118: Via is appended, Server is set if there is none.
decorate(resp) ==
    LET via == header_append(resp.headers, "via",
                             version_label(resp.version) \o RUSTNISH_VERSION)
    IN  [resp EXCEPT !.headers =
            IF header_contains_key(via, "server")
            THEN via
            ELSE header_insert(via, "server", RUSTNISH)]

\* The most Via header lines a response of upstream carries.
MaxVia == 2

ViaValues ==
    { <<"1", ".", "1", " ", "t", "e", "s", "t">>,
      <<"1", ".", "1">> \o RUSTNISH_VERSION }

ServerValues ==
    { <<>>,
      << <<"d", "u", "m", "m", "y", "-", "s", "e", "r", "v", "e", "r">> >>,
      << RUSTNISH >>,
      << <<"a">>, <<"b">> >> }

\* The responses the decorator is applied to: Via lines or none, a Server
\* header or none, before or after them.
DecorateResponses ==
    { Response(status, version,
               with_headers(
                   with_headers(with_headers(NoHeaders, "server", first), "via", via),
                   "server", IF first = <<>> THEN last ELSE <<>>),
               <<>>) :
        status \in {200, 404}, version \in Versions,
        first \in ServerValues, via \in SeqsUpTo(ViaValues, MaxVia),
        last \in ServerValues }

\* No response has been received.
NoResponse == Response(0, "none", NoHeaders, <<>>)

\* What max_age_out holds before get_max_age has returned.
AgePending == [done |-> FALSE, age |-> NoAge]

\* The most Cache-Control header lines a response carries.
MaxCacheControl == 2

\* Cache-Control values: public,max-age=60 with and without a space after the
\* comma, each directive alone, max-age values that are 0, empty, signed or no
\* number, other directives, other spellings, and a value that is not text.
CacheControlValues ==
    { PUBLIC \o <<",">> \o MAX_AGE \o <<"=", "6", "0">>,
      PUBLIC \o <<",", " ">> \o MAX_AGE \o <<"=", "6", "0">>,
      PUBLIC,
      MAX_AGE \o <<"=", "1">>,
      MAX_AGE \o <<"=", "0">>,
      MAX_AGE \o <<"=", "x">>,
      MAX_AGE \o <<"=">>,
      MAX_AGE \o <<"=", "+", "2">>,
      MAX_AGE \o <<"=", "1", "=", "2">>,
      MAX_AGE \o <<"=", "5", ",", " ">> \o PUBLIC,
      <<"P", "u", "b", "l", "i", "c">>,
      <<"p", "r", "i", "v", "a", "t", "e">>,
      PUBLIC \o <<",">> \o MAX_AGE \o <<"=", "7", ",", "<c3a9>">> }

\* The responses get_max_age is applied to.
AgeResponses ==
    { Response(200, "HTTP/1.1", one_header("cache-control", values), <<>>) :
          values \in SeqsUpTo(CacheControlValues, MaxCacheControl) }

\* ------------------------------------------------- the cache of the proxy

\* size_of_val of a CachedResponse, lib.rs 149: 128 bytes where the test of
\* lib.rs 364 counts 129 for an entry with a body of one byte.
StructSize == 128

RECURSIVE header_bytes(_)
\* lib.rs 152-154: for every value of every header, the bytes of the name and
\* of the value.
header_bytes(headers) ==
    IF headers = <<>>
    THEN 0
    ELSE LET entry == Head(headers)
             RECURSIVE values_bytes(_)
             values_bytes(values) ==
                 IF values = <<>>
                 THEN 0
                 ELSE Len(entry.name) + Len(Head(values)) + values_bytes(Tail(values))
         IN  values_bytes(entry.values) + header_bytes(Tail(headers))

\* Faulty variant of get_memory_size: the bytes of a header name are counted
\* once for the name, not once for each of its values. C29_MemoryFootprint
\* does not survive it.
get_memory_size_NameOnce(entry) ==
    LET RECURSIVE repeated(_)
        repeated(headers) ==
            IF headers = <<>>
            THEN 0
            ELSE (Len(Head(headers).values) - 1) * Len(Head(headers).name)
                     + repeated(Tail(headers))
    IN  StructSize + header_bytes(entry.headers) - repeated(entry.headers)
            + Len(entry.body)

\* CachedResponse::get_memory_size. The body of an entry is a vector made by
\* to_vec and clone, whose capacity is its length.
get_memory_size(entry) == StructSize + header_bytes(entry.headers) + Len(entry.body)

RECURSIVE concat2(_)
\* Stream::concat2 on a body: the bytes of its chunks, one after the other.
concat2(body) ==
    IF body = <<>> THEN <<>> ELSE Head(body) \o concat2(Tail(body))

\* Body::from of a vector of bytes: a stream of one chunk, of none if there
\* are no bytes.
from_bytes(bytes) == IF bytes = <<>> THEN <<>> ELSE <<bytes>>

\* lib.rs 224-229: the entry made of the head of a response and of the bytes
\* drained from its body.
CachedResponse(header_part, body_bytes) ==
    [status |-> header_part.status, version |-> header_part.version,
     headers |-> header_part.headers, body |-> body_bytes]

\* Faulty variant of rehydrate: the headers are set one value at a time with
\* insert, so a name keeps its last value only. C21_Lossless does not survive
\* it.
rehydrate_InsertsHeaders(entry) ==
    Response(entry.status, entry.version,
             [i \in 1..Len(entry.headers) |->
                 [entry.headers[i] EXCEPT
                     !.values = IF @ = <<>> THEN @ ELSE <<@[Len(@)]>>]],
             from_bytes(entry.body))

\* lib.rs 194-199: the response built from an entry of the cache.
rehydrate(entry) ==
    Response(entry.status, entry.version, entry.headers, from_bytes(entry.body))

\* Cache::lookup: get under the mutex, at the instant t.
lookup(c, key, t) ==
    IF ~key.some
    THEN [cache |-> c, hit |-> FALSE, response |-> NoResponse]
    ELSE LET g == get(c, key.v, t)
         IN  IF key.v \in DOMAIN g.cache.map
             THEN [cache |-> g.cache, hit |-> TRUE, response |-> rehydrate(g.ret)]
             ELSE [cache |-> g.cache, hit |-> FALSE, response |-> NoResponse]

\* The result of one exchange with upstream: Err(error) of client.request, or
\* Ok(response) with the number of chunks of the body that arrive before the
\* body stream ends (all of them) or fails (fewer).
NoResult == [ok |-> FALSE, error |-> "none", received |-> 0]

\* The last instant the clock holds. Instant counts seconds in 63 bits on the
\* platform; the integers of the model are 32 bits wide and its Instant has
\* 31.
INSTANT_MAX == 2147483647

\* lib.rs 235, Instant::now() + Duration::from_secs(max_age): the sum is an
\* instant, or the addition panics ("overflow when adding duration to
\* instant").
fits_instant(t, max_age) == max_age <= INSTANT_MAX - t

\* Faulty variant of store: the entry is charged for its body alone, so that a
\* response whose entry is larger than the budget is stored all the same.
\* C26_OversizeKeepsOthers does not survive it.
store_ChargesBody(c, max, key, resp, received, t) ==
    IF ~key.some \/ ~get_max_age(resp).some
    THEN [cache |-> c, abort |-> "none", panicked |-> FALSE,
          response |-> [resp EXCEPT !.body = SubSeq(@, 1, received)]]
    ELSE IF received < Len(resp.body)
    THEN [cache |-> c, abort |-> "none", panicked |-> TRUE, response |-> NoResponse]
    ELSE IF ~fits_instant(t, get_max_age(resp).v)
    THEN [cache |-> c, abort |-> "instant_overflow", panicked |-> TRUE,
          response |-> NoResponse]
    ELSE LET body_bytes == concat2(resp.body)
             entry == CachedResponse(resp, body_bytes)
             r == insert(c, max, key.v, entry, Len(entry.body),
                         t + get_max_age(resp).v, t)
         IN  [cache |-> r.cache, abort |-> r.abort, panicked |-> r.abort # "none",
              response |-> IF r.abort = "none"
                           THEN [resp EXCEPT !.body = from_bytes(body_bytes)]
                           ELSE NoResponse]

\* Cache::store, given the decorated response and what arrives of its body.
\* Without a key or a max-age the response is handed on as it streams. With
\* both, the body is drained (concat2().wait().unwrap(), line 221, panics if
\* the stream fails), then the mutex is taken and the entry is inserted with
\* its memory size (lib.rs 146-160) and the expiry t + max_age; the addition
\* is made with the guard held and panics if the sum is no instant.
store(c, max, key, resp, received, t) ==
    IF ~key.some \/ ~get_max_age(resp).some
    THEN [cache |-> c, abort |-> "none", panicked |-> FALSE,
          response |-> [resp EXCEPT !.body = SubSeq(@, 1, received)]]
    ELSE IF received < Len(resp.body)
    THEN [cache |-> c, abort |-> "none", panicked |-> TRUE, response |-> NoResponse]
    ELSE IF ~fits_instant(t, get_max_age(resp).v)
    THEN [cache |-> c, abort |-> "instant_overflow", panicked |-> TRUE,
          response |-> NoResponse]
    ELSE LET body_bytes == concat2(resp.body)
             entry == CachedResponse(resp, body_bytes)
             r == insert(c, max, key.v, entry, get_memory_size(entry),
                         t + get_max_age(resp).v, t)
         IN  [cache |-> r.cache, abort |-> r.abort, panicked |-> r.abort # "none",
              response |-> IF r.abort = "none"
                           THEN [resp EXCEPT !.body = from_bytes(body_bytes)]
                           ELSE NoResponse]

\* The text of lib.rs 128.
SOMETHING_WENT_WRONG ==
    <<"S", "o", "m", "e", "t", "h", "i", "n", "g", " ", "w", "e", "n", "t", " ",
      "w", "r", "o", "n", "g", ",", " ", "p", "l", "e", "a", "s", "e", " ",
      "t", "r", "y", " ", "a", "g", "a", "i", "n", " ", "l", "a", "t", "e", "r", ".">>

\* lib.rs 126-129: the response made for a failed exchange.
BadGateway == Response(502, "HTTP/1.1", NoHeaders, from_bytes(SOMETHING_WENT_WRONG))

\* Faulty variant of call: the response found in the cache goes through the
\* decorator again. C13_HitSkipsUpstream does not survive it.
call_DecoratesHit(c, req, p, t) ==
    LET l == lookup(c, cache_key(req), t)
    IN  [cache |-> l.cache, key |-> cache_key(req), hit |-> l.hit,
         reply |-> IF l.hit THEN decorate(l.response) ELSE l.response,
         forwarded |-> IF l.hit THEN NoRequest ELSE rewrite(req, p)]

\* Proxy::call up to the request to upstream, lines 50-100: the key, the
\* lookup and, on a miss, the rewritten request.
call(c, req, p, t) ==
    LET l == lookup(c, cache_key(req), t)
    IN  [cache |-> l.cache, key |-> cache_key(req), hit |-> l.hit,
         reply |-> l.response,
         forwarded |-> IF l.hit THEN NoRequest ELSE rewrite(req, p)]

\* Faulty variant of upstream_then: a response with a 4xx or 5xx status is
\* taken for a failed exchange. C27_OriginErrorsPassThrough does not survive
\* it.
upstream_then_ErrorStatusFails(c, max, key, res, resp, t) ==
    IF ~res.ok \/ resp.status >= 400
    THEN [cache |-> c, abort |-> "none", pc |-> "done", reply |-> BadGateway]
    ELSE LET s == store(c, max, key, decorate(resp), res.received, t)
         IN  [cache |-> s.cache, abort |-> s.abort,
              pc |-> IF s.panicked THEN "panicked"
                     ELSE IF res.received < Len(resp.body) THEN "truncated"
                     ELSE "done",
              reply |-> s.response]

\* The closure of lines 100-133, given the result of the exchange: pc is
\* "done" when a whole response goes to the client, "truncated" when the
\* head went out and the body stream failed, "panicked" when the closure
\* panicked and no response goes out.
upstream_then(c, max, key, res, resp, t) ==
    IF ~res.ok
    THEN [cache |-> c, abort |-> "none", pc |-> "done", reply |-> BadGateway]
    ELSE LET s == store(c, max, key, decorate(resp), res.received, t)
         IN  [cache |-> s.cache, abort |-> s.abort,
              pc |-> IF s.panicked THEN "panicked"
                     ELSE IF res.received < Len(resp.body) THEN "truncated"
                     ELSE "done",
              reply |-> s.response]

\* ------------------------------------------------------------- LRU actions

\* BTreeMap::new().
EmptyMap == [x \in {} |-> None]

\* LruCache::with_memory_size.
LruInit ==
    /\ map = EmptyMap
    /\ list = <<>>
    /\ max_memory_size \in 0..MaxBytes
    /\ current_memory_size = 0
    /\ now = 0
    /\ aborted = "none"

\* A store whose insert panicked is gone: no call follows.
Running == aborted = "none"

SetCache(c) ==
    /\ map' = c.map
    /\ list' = c.list
    /\ current_memory_size' = c.current_memory_size

Insert ==
    \E key \in Keys, value \in Values, memory_size \in Sizes, expires \in Expiries :
        \E r \in {insert(Cache, max_memory_size, key, value, memory_size, expires, now)} :
            /\ Running
            /\ SetCache(r.cache)
            /\ aborted' = r.abort
            /\ UNCHANGED <<max_memory_size, now, key_vars, proxy_vars, other_vars>>

Remove ==
    \E key \in Keys :
        /\ Running
        /\ \E r \in {remove(Cache, key)} : SetCache(r.cache)
        /\ UNCHANGED <<max_memory_size, now, aborted, key_vars, proxy_vars, other_vars>>

\* LruCache::clear.
Clear ==
    /\ Running
    /\ map' = EmptyMap
    /\ list' = <<>>
    /\ current_memory_size' = 0
    /\ UNCHANGED <<max_memory_size, now, aborted, key_vars, proxy_vars, other_vars>>

Get ==
    \E key \in Keys :
        /\ Running
        /\ \E r \in {get(Cache, key, now)} : SetCache(r.cache)
        /\ UNCHANGED <<max_memory_size, now, aborted, key_vars, proxy_vars, other_vars>>

\* LruCache::iter, traversed as far as the caller likes.
Iter ==
    \E n \in 0..Cardinality(Keys) :
        /\ Running
        /\ n <= Len(IterKeys(Cache, now))
        /\ \E c \in {iter(Cache, n, now)} : SetCache(c)
        /\ UNCHANGED <<max_memory_size, now, aborted, key_vars, proxy_vars, other_vars>>

\* peek, contains_key, len and is_empty take &self: whatever they return, the
\* store is as before.
Query ==
    \E key \in Keys :
        /\ Running
        /\ peek(Cache, key, now) \in Values \cup {None}
        /\ contains_key(Cache, key, now) \in BOOLEAN
        /\ len(Cache, now) \in Nat
        /\ is_empty(Cache, now) \in BOOLEAN
        /\ UNCHANGED vars

\* The clock advances between calls.
Tick ==
    /\ now < MaxTime
    /\ now' = now + 1
    /\ UNCHANGED <<map, list, current_memory_size, max_memory_size, aborted,
                   key_vars, proxy_vars, other_vars>>

\* No entry: what cache_entry holds where get_memory_size is not applied.
NoEntry == CachedResponse(NoResponse, <<>>)

\* What memory_size_out holds before get_memory_size has returned.
SizePending == [done |-> FALSE, size |-> 0]

\* The most connections that are open at a time: accept fails beyond.
MaxConnections == 3

Connections == 1..MaxConnections

\* The requests that are in flight side by side.
Workers == {"w1", "w2"}

\* A worker without a request: pc is where its request is in Proxy::call, key
\* the key of the request, response what upstream answered, step the step of
\* Cache::store it has come to, expires the expiry it computed for its entry,
\* sent the number of times it called client.request, answer where the
\* response it gave came from.
NoWorker ==
    [pc |-> "idle", key |-> NoKey, response |-> NoResponse, step |-> 0,
     expires |-> 0, sent |-> 0, answer |-> "none"]

\* No request is in flight.
ProxyIdle ==
    /\ response = NoResponse
    /\ max_age_out = AgePending
    /\ forwarded = NoRequest
    /\ reply = NoResponse
    /\ pc = "idle"
    /\ upstream = "up"
    /\ proxy = DefaultProxy
    /\ result = NoResult

\* No entry is measured.
SizeIdle ==
    /\ cache_entry = NoEntry
    /\ memory_size_out = SizePending

\* No server is started.
ServerIdle ==
    /\ server = "stopped"
    /\ error_chain = <<>>
    /\ connections = [c \in Connections |-> "none"]

\* No requests are in flight side by side.
WorkersIdle ==
    /\ workers = [w \in Workers |-> NoWorker]
    /\ mutex = None

OtherIdle == SizeIdle /\ ServerIdle /\ WorkersIdle

Init ==
    /\ LruInit
    /\ request = NoRequest
    /\ key_out = Pending
    /\ ProxyIdle
    /\ OtherIdle

Next ==
    \/ Insert
    \/ Remove
    \/ Clear
    \/ Get
    \/ Iter
    \/ Query
    \/ Tick

Spec == Init /\ [][Next]_vars

\* The store once more, for the claims on what insert returns and evicts: the
\* behaviours of Spec.
SpecInsert == Init /\ [][Next]_vars

\* And for the claims on the sweep and on totality.
SpecSweep == Init /\ [][Next]_vars

\* ----------------------------------------------- key derivation, on its own

KeyInit ==
    /\ map = EmptyMap
    /\ list = <<>>
    /\ max_memory_size = MaxBytes
    /\ current_memory_size = 0
    /\ now = 0
    /\ aborted = "none"
    /\ request \in Requests
    /\ key_out = Pending
    /\ ProxyIdle
    /\ OtherIdle

\* Proxy::call, line 50: the key is derived from the request.
CacheKey ==
    /\ ~key_out.done
    /\ key_out' = [done |-> TRUE, key |-> cache_key(request)]
    /\ UNCHANGED <<lru_vars, request, proxy_vars, other_vars>>

KeyNext == CacheKey

SpecKey == KeyInit /\ [][KeyNext]_vars

\* ------------------------------------------- cachability policy, on its own

\* An empty store that no call reaches.
LruIdle ==
    /\ map = EmptyMap
    /\ list = <<>>
    /\ max_memory_size = MaxBytes
    /\ current_memory_size = 0
    /\ now = 0
    /\ aborted = "none"

AgeInit ==
    /\ LruIdle
    /\ request = NoRequest
    /\ key_out = Pending
    /\ response \in AgeResponses
    /\ max_age_out = AgePending
    /\ forwarded = NoRequest
    /\ reply = NoResponse
    /\ pc = "idle"
    /\ upstream = "up"
    /\ proxy = DefaultProxy
    /\ result = NoResult
    /\ OtherIdle

\* Cache::store, line 214: the policy is asked about the response.
GetMaxAge ==
    /\ ~max_age_out.done
    /\ max_age_out' = [done |-> TRUE, age |-> get_max_age(response)]
    /\ UNCHANGED <<lru_vars, key_vars, response, forwarded, reply, pc, upstream,
                   proxy, result, other_vars>>

AgeNext == GetMaxAge

SpecAge == AgeInit /\ [][AgeNext]_vars

\* -------------------------------------------------- rewriter, on its own

RewriteInit ==
    /\ LruIdle
    /\ request \in RewriteRequests
    /\ key_out = Pending
    /\ response = NoResponse
    /\ max_age_out = AgePending
    /\ forwarded = NoRequest
    /\ reply = NoResponse
    /\ pc = "idle"
    /\ upstream = "up"
    /\ proxy \in Proxies
    /\ result = NoResult
    /\ OtherIdle

\* Proxy::call, lines 56-96: the request is rewritten for upstream.
Rewrite ==
    /\ pc = "idle"
    /\ forwarded' = rewrite(request, proxy)
    /\ pc' = "waiting"
    /\ UNCHANGED <<lru_vars, key_vars, response, max_age_out, reply, upstream,
                   proxy, result, other_vars>>

RewriteNext == Rewrite

SpecRewrite == RewriteInit /\ [][RewriteNext]_vars

\* ------------------------------------------------- decorator, on its own

DecorateInit ==
    /\ LruIdle
    /\ request = NoRequest
    /\ key_out = Pending
    /\ response \in DecorateResponses
    /\ max_age_out = AgePending
    /\ forwarded = NoRequest
    /\ reply = NoResponse
    /\ pc = "waiting"
    /\ upstream = "up"
    /\ proxy = DefaultProxy
    /\ result = NoResult
    /\ OtherIdle

\* Proxy::call, lines 102-118: the response of upstream is decorated.
Decorate ==
    /\ pc = "waiting"
    /\ reply' = decorate(response)
    /\ pc' = "done"
    /\ UNCHANGED <<lru_vars, key_vars, response, max_age_out, forwarded, upstream,
                   proxy, result, other_vars>>

DecorateNext == Decorate

SpecDecorate == DecorateInit /\ [][DecorateNext]_vars

\* ------------------------------------------- get_memory_size, on its own

\* The most values a header name of a measured entry has.
MaxHeaderValues == 2

\* Header values of one and of two bytes.
SizeValues == { <<"b">>, <<"c", "d">> }

\* The bodies of the measured entries: empty, the one byte of
\* example_cache_entry, two bytes, and the 100 bytes of body_100_bytes.
SizeBodies == { <<>>, <<"a">>, <<"a", "b">>, [i \in 1..100 |-> "a"] }

\* The entries get_memory_size is applied to: example_cache_entry with the
\* bodies above and with headers under the names a and via, each with no
\* value, one or more.
SizeEntries ==
    { CachedResponse(
          Response(200, "HTTP/1.1",
                   with_headers(with_headers(NoHeaders, "a", a), "via", via), <<>>),
          body) :
        a \in SeqsUpTo(SizeValues, MaxHeaderValues),
        via \in SeqsUpTo(SizeValues, MaxHeaderValues),
        body \in SizeBodies }

SizeInit ==
    /\ LruIdle
    /\ request = NoRequest
    /\ key_out = Pending
    /\ ProxyIdle
    /\ ServerIdle
    /\ WorkersIdle
    /\ cache_entry \in SizeEntries
    /\ memory_size_out = SizePending

\* Cache::store: the entry is measured for the insert.
GetMemorySize ==
    /\ ~memory_size_out.done
    /\ memory_size_out' = [done |-> TRUE, size |-> get_memory_size(cache_entry)]
    /\ UNCHANGED <<lru_vars, key_vars, proxy_vars, cache_entry, server_vars,
                   worker_vars>>

SizeNext == GetMemorySize

SpecSize == SizeInit /\ [][SizeNext]_vars

\* ------------------------------------------------------------ the proxy

\* The memory_size start_server_background_memory is given: room for no
\* response of the model, for one, for two.
MemorySizes == {StructSize, 2 * StructSize, 4 * StructSize}

SESSION_COOKIE == <<"S", "E", "S", "S", "1", "=", "x">>

OTHER_COOKIE == <<"a", "=", "1">>

\* The requests clients send: GET and POST for two paths, without cookie, with
\* a session cookie, and with a session cookie in a second Cookie line.
ProxyRequests ==
    [method : {"GET", "POST"},
     cookies : {<<>>, <<SESSION_COOKIE>>, <<OTHER_COOKIE, SESSION_COOKIE>>},
     uri : [authority : {None}, path : {"/", "/test"}, query : {None}],
     headers : {NoHeaders}]

\* Cache-Control: public,max-age=1.
PUBLIC_MAX_AGE_1 == PUBLIC \o <<",">> \o MAX_AGE \o <<"=", "1">>

\* The Via line upstream sends in the test via_header_added: 1.1 test.
UPSTREAM_VIA == <<"1", ".", "1", " ", "t", "e", "s", "t">>

\* What upstream answers when it answers: a 200 of one chunk without
\* Cache-Control, with public,max-age=1 and with max-age=1 alone; a cachable
\* 200 of two chunks that carries a Via line of its own; a cachable 404; and a
\* 500 without Cache-Control.
UpstreamResponses ==
    { Response(200, "HTTP/1.1", one_header("cache-control", cc), << <<"a">> >>) :
        cc \in { <<>>, <<PUBLIC_MAX_AGE_1>>, << MAX_AGE \o <<"=", "1">> >> } }
    \cup
    { Response(200, "HTTP/1.1",
               one_header("cache-control", <<PUBLIC_MAX_AGE_1>>)
                   \o one_header("via", <<UPSTREAM_VIA>>),
               << <<"a">>, <<"b">> >>),
      Response(404, "HTTP/1.1", one_header("cache-control", <<PUBLIC_MAX_AGE_1>>),
               << <<"n">> >>),
      Response(500, "HTTP/1.1", NoHeaders, << <<"e">> >>) }

\* The transport failures of client.request.
TransportErrors == {"connect", "read", "malformed"}

ProxyInit ==
    /\ map = EmptyMap
    /\ list = <<>>
    /\ max_memory_size \in MemorySizes
    /\ current_memory_size = 0
    /\ now = 0
    /\ aborted = "none"
    /\ request = NoRequest
    /\ key_out = Pending
    /\ ProxyIdle
    /\ OtherIdle

\* A request arrives while none is in flight. Proxy::call, lines 50-100: the
\* key, the lookup, and either the cached response or the request to upstream.
Call ==
    \E req \in ProxyRequests :
        \E r \in {call(Cache, req, proxy, now)} :
            /\ Running
            /\ pc # "waiting"
            /\ request' = req
            /\ key_out' = [done |-> TRUE, key |-> r.key]
            /\ SetCache(r.cache)
            /\ forwarded' = r.forwarded
            /\ reply' = r.reply
            /\ pc' = IF r.hit THEN "done" ELSE "waiting"
            /\ response' = NoResponse
            /\ result' = NoResult
            /\ max_age_out' = AgePending
            /\ UNCHANGED <<max_memory_size, now, aborted, upstream, proxy, other_vars>>

\* The step of Then for one result of the exchange.
ThenWith(res, resp) ==
    \E r \in {upstream_then(Cache, max_memory_size, key_out.key, res, resp, now)} :
        /\ SetCache(r.cache)
        /\ aborted' = r.abort
        /\ pc' = r.pc
        /\ reply' = r.reply
        /\ response' = resp
        /\ result' = res
        /\ max_age_out' =
               IF res.ok /\ key_out.key.some
               THEN [done |-> TRUE, age |-> get_max_age(decorate(resp))]
               ELSE AgePending
        /\ UNCHANGED <<max_memory_size, now, key_vars, forwarded, upstream, proxy,
                       other_vars>>

\* How an exchange can go: an upstream that is down refuses the connection;
\* one that is up answers, with a body that arrives whole or not, or the
\* exchange fails on the way. Each is a pair of the result and the response.
Exchanges(up) ==
    IF up = "down"
    THEN { <<[ok |-> FALSE, error |-> "connect", received |-> 0], NoResponse>> }
    ELSE { <<[ok |-> FALSE, error |-> error, received |-> 0], NoResponse>> :
               error \in TransportErrors \ {"connect"} }
         \cup
         UNION { { <<[ok |-> TRUE, error |-> "none", received |-> received], resp>> :
                       received \in 0..Len(resp.body) } :
                 resp \in UpstreamResponses }

\* The exchange with upstream ends and the closure of lines 100-133 runs.
Then ==
    /\ Running
    /\ pc = "waiting"
    /\ \E x \in Exchanges(upstream) : ThenWith(x[1], x[2])

\* upstream_server.shutdown_now() of the tests.
StopUpstream ==
    /\ upstream = "up"
    /\ upstream' = "down"
    /\ UNCHANGED <<lru_vars, key_vars, response, max_age_out, forwarded, reply, pc,
                   proxy, result, other_vars>>

\* Upstream is started again.
StartUpstream ==
    /\ upstream = "down"
    /\ upstream' = "up"
    /\ UNCHANGED <<lru_vars, key_vars, response, max_age_out, forwarded, reply, pc,
                   proxy, result, other_vars>>

ProxyNext ==
    \/ Call
    \/ Then
    \/ StopUpstream
    \/ StartUpstream
    \/ Tick

SpecProxy == ProxyInit /\ [][ProxyNext]_vars

\* ------------------------------------------------------------- the server

RECURSIVE join(_)
\* The text made of the characters, as Display writes it into a message.
join(chars) == IF chars = <<>> THEN "" ELSE Head(chars) \o join(Tail(chars))

\* SocketAddr as Display writes it, for ([127, 0, 0, 1], port): the address,
\* a colon, the port in decimal.
address_to_string(port) ==
    join(ip_to_string(<<127, 0, 0, 1>>)) \o ":" \o join(to_string(port))

\* The io::Error of a bind to a port another socket is bound to (EADDRINUSE,
\* as Linux words it).
ADDRESS_IN_USE == "Address already in use (os error 98)"

\* What a start function returns: Ok(runtime) with the acceptor spawned, or
\* Err with the chain of messages, outermost first.
Started == [ok |-> TRUE, chain |-> <<>>]

StartFailed(chain) == [ok |-> FALSE, chain |-> chain]

\* chain_err on a result: a failure gets the message on top of its chain.
chain_err(r, message) ==
    IF r.ok THEN r ELSE StartFailed(<<message>> \o r.chain)

\* TcpListener::bind(&address): fails when the port is taken.
bind(port, taken) ==
    IF port \in taken THEN StartFailed(<<ADDRESS_IN_USE>>) ELSE Started

\* Faulty variant of start_server_background_memory: the error of bind is
\* handed up as it is, without the message that names the address.
\* C22_BindFailure does not survive it.
start_server_background_memory_NoContext(port, taken) ==
    bind(port, taken)

\* start_server_background_memory, lines 296-341: bind, with the address in the
\* message of a failure, before the acceptor is built and spawned.
start_server_background_memory(port, taken) ==
    chain_err(bind(port, taken),
              "Failed to bind server to address " \o address_to_string(port))

\* start_server_background, lines 287-290.
start_server_background(port, taken) ==
    start_server_background_memory(port, taken)

\* start_server_blocking, lines 278-281: up to the wait for the runtime.
start_server_blocking(port, taken) ==
    chain_err(start_server_background(port, taken), "Spawning server thread failed")

\* lib.rs 284: what start_server_blocking returns when the runtime is idle.
FINISHED_UNEXPECTEDLY == "The server thread finished unexpectedly"

\* The ports other sockets are bound to: the port of upstream while it runs.
TakenPorts == IF upstream = "up" THEN {proxy.upstream_port} ELSE {}

\* The proxies the driver starts: on a port of its own, and on the port of
\* upstream as the test port_occupied does.
ServerProxies ==
    [port : {9090, 9091}, upstream_port : {9091}, source_address : {<<127, 0, 0, 1>>}]

ServerInit ==
    /\ LruIdle
    /\ request = NoRequest
    /\ key_out = Pending
    /\ response = NoResponse
    /\ max_age_out = AgePending
    /\ forwarded = NoRequest
    /\ reply = NoResponse
    /\ pc = "idle"
    /\ upstream \in {"up", "down"}
    /\ proxy \in ServerProxies
    /\ result = NoResult
    /\ SizeIdle
    /\ WorkersIdle
    /\ ServerIdle

\* A connection that is not there: none yet, or one that has ended, by a
\* close or by an error.
Ended == {"none", "closed", "failed"}

\* What the server leaves alone.
server_frame == <<lru_vars, key_vars, proxy_vars, size_vars, worker_vars>>

\* The driver calls start_server_blocking: it returns the error of the start,
\* or the acceptor runs and the call waits for the runtime.
Start ==
    \E r \in {start_server_blocking(proxy.port, TakenPorts)} :
        /\ server = "stopped"
        /\ server' = IF r.ok THEN "listening" ELSE "failed"
        /\ error_chain' = r.chain
        /\ UNCHANGED <<connections, server_frame>>

\* lib.rs 318-333: incoming() yields the socket of a client, peer_addr() gives
\* its address and the connection is spawned as a task of its own.
Accept ==
    \E c \in Connections :
        /\ server = "listening"
        /\ connections[c] \in Ended
        /\ connections' = [connections EXCEPT ![c] = "open"]
        /\ UNCHANGED <<server, error_chain, server_frame>>

\* lib.rs 319: incoming() yields the socket of a client that is gone by then
\* (it reset the connection while it waited to be accepted): peer_addr()
\* returns an error and the unwrap panics inside the acceptor, which is
\* dropped with the listener.
AcceptPeerGone ==
    \E c \in Connections :
        /\ server = "listening"
        /\ connections[c] \in Ended
        /\ server' = "dead"
        /\ UNCHANGED <<error_chain, connections, server_frame>>

\* lib.rs 335: incoming() yields an error of accept, as it does when the
\* process is out of descriptors because of the connections it holds open: the
\* for_each ends with the error and map_err panics. The acceptor is gone.
AcceptError ==
    /\ server = "listening"
    /\ \A c \in Connections : connections[c] \notin Ended
    /\ server' = "dead"
    /\ UNCHANGED <<error_chain, connections, server_frame>>

\* lib.rs 320-332: a well-formed request arrives on a connection and
\* serve_connection answers it through Proxy::call.
Serve ==
    \E c \in Connections :
        /\ connections[c] \in {"open", "served"}
        /\ connections' = [connections EXCEPT ![c] = "served"]
        /\ UNCHANGED <<server, error_chain, server_frame>>

\* lib.rs 331-332: serve_connection ends with an error of the connection (a
\* reset, a request that is no HTTP), which map_err drops: the task ends, the
\* acceptor is not told.
ConnectionFails ==
    \E c \in Connections :
        /\ connections[c] \in {"open", "served"}
        /\ connections' = [connections EXCEPT ![c] = "failed"]
        /\ UNCHANGED <<server, error_chain, server_frame>>

\* lib.rs 331: the client closes the connection, with or without having sent
\* a request: serve_connection ends with Ok and the task ends.
ConnectionCloses ==
    \E c \in Connections :
        /\ connections[c] \in {"open", "served"}
        /\ connections' = [connections EXCEPT ![c] = "closed"]
        /\ UNCHANGED <<server, error_chain, server_frame>>

\* lib.rs 282-284: the acceptor is gone and the last connection has ended,
\* the runtime is idle: start_server_blocking returns its error.
Finish ==
    /\ server = "dead"
    /\ \A c \in Connections : connections[c] \in Ended
    /\ server' = "finished"
    /\ error_chain' = <<FINISHED_UNEXPECTEDLY>>
    /\ UNCHANGED <<connections, server_frame>>

ServerNext ==
    \/ Start
    \/ Accept
    \/ AcceptPeerGone
    \/ AcceptError
    \/ Serve
    \/ ConnectionFails
    \/ ConnectionCloses
    \/ Finish

SpecServer == ServerInit /\ [][ServerNext]_vars

\* ------------------------------------------------- requests side by side

\* Faulty variant of store_steps: the mutex is taken before the body is
\* drained. C25_NoIoUnderMutex does not survive it.
store_steps_LockFirst == <<"lock", "drain", "insert", "finish">>

\* Cache::store for a response that is stored, lines 220-238, step by step:
\* the body is drained (221), the mutex is taken (223), and under the mutex
\* the entry and its expiry are made and LruCache::insert sweeps and removes
\* the old entry (224-235, cache.rs 155-156), then makes room and stores
\* (cache.rs 158-176); the mutex is released where the guard goes out of scope
\* (238).
store_steps == <<"drain", "lock", "insert", "finish">>

\* The memory_size of the cache the workers share: room for two of the small
\* responses below, not for the large one.
WorkerMemorySize == 4 * StructSize

\* The requests of the workers: GET and POST of two paths, without cookie.
WorkerRequests ==
    [method : {"GET", "POST"}, cookies : {<<>>},
     uri : [authority : {None}, path : {"/", "/test"}, query : {None}],
     headers : {NoHeaders}]

\* Cache-Control: public,max-age=2147483647, the largest max-age whose sum
\* with an instant may be no instant.
PUBLIC_MAX_AGE_LAST ==
    PUBLIC \o <<",">> \o MAX_AGE \o <<"=">> \o to_string(INSTANT_MAX)

\* What upstream answers to them: a small response that may be cached, one of
\* 400 bytes that may be cached, a small one without Cache-Control, and a
\* small one that may be cached for as long as the clock lasts.
WorkerResponses ==
    { Response(200, "HTTP/1.1", one_header("cache-control", <<PUBLIC_MAX_AGE_1>>),
               << <<"a">> >>),
      Response(200, "HTTP/1.1", one_header("cache-control", <<PUBLIC_MAX_AGE_1>>),
               << [i \in 1..400 |-> "a"] >>),
      Response(200, "HTTP/1.1", NoHeaders, << <<"a">> >>),
      Response(200, "HTTP/1.1", one_header("cache-control", <<PUBLIC_MAX_AGE_LAST>>),
               << <<"b">> >>) }

\* What client.request resolves to: an error, or the response whose head has
\* arrived. An upstream that is down refuses the connection.
Heads(up) ==
    IF up = "down"
    THEN { [ok |-> FALSE, response |-> NoResponse] }
    ELSE { [ok |-> FALSE, response |-> NoResponse] }
         \cup { [ok |-> TRUE, response |-> resp] : resp \in WorkerResponses }

WorkersInit ==
    /\ map = EmptyMap
    /\ list = <<>>
    /\ max_memory_size = WorkerMemorySize
    /\ current_memory_size = 0
    /\ now = 0
    /\ aborted = "none"
    /\ request = NoRequest
    /\ key_out = Pending
    /\ ProxyIdle
    /\ SizeIdle
    /\ ServerIdle
    /\ WorkersIdle

\* What the workers leave alone.
workers_frame ==
    <<max_memory_size, key_vars, response, max_age_out, forwarded, reply, pc,
      proxy, result, size_vars, server_vars>>

\* The worker w has no request in flight.
Free(w) == workers[w].pc \in {"idle", "done", "panicked", "lock_failed"}

\* The worker w is through with its request: the response has gone out.
Done == [NoWorker EXCEPT !.pc = "done"]

\* The closure of the worker panicked: no response goes out.
Panicked == [NoWorker EXCEPT !.pc = "panicked"]

\* lock().unwrap() panicked in the worker (lib.rs 190, 223): no response goes
\* out.
LockFailed == [NoWorker EXCEPT !.pc = "lock_failed"]

\* The mutex is poisoned: a worker panicked while it held the guard. From
\* then on lock() returns an error to every caller.
Poisoned == aborted # "none"

\* Proxy::call, lines 50-52, for a request on the connection of w: the key,
\* and for a request with a key the lock() of Cache::lookup (line 190), which
\* waits while another worker holds the mutex and whose unwrap panics if the
\* mutex is poisoned. A request without a key goes to upstream at once (lines
\* 56-100).
WorkerCall(w) ==
    \E req \in WorkerRequests :
        /\ Free(w)
        /\ IF cache_key(req).some
           THEN /\ mutex = None
                /\ mutex' = IF Poisoned THEN None ELSE w
                /\ workers' = [workers EXCEPT
                                   ![w] = IF Poisoned
                                          THEN LockFailed
                                          ELSE [NoWorker EXCEPT
                                                    !.pc = "lookup",
                                                    !.key = cache_key(req)]]
           ELSE /\ mutex' = mutex
                /\ workers' = [workers EXCEPT
                                   ![w] = [NoWorker EXCEPT !.pc = "waiting",
                                                           !.sent = 1]]
        /\ UNCHANGED <<map, list, current_memory_size, now, aborted, upstream,
                       workers_frame>>

\* Cache::lookup, lines 191-204, under the mutex: get, the response built from
\* the entry on a hit, and the guard dropped at the end of the arm. On a miss
\* the request goes to upstream (lines 56-100). A worker that is here has come
\* through lock(): that it holds the mutex is for the mutex to see to.
WorkerLookup(w) ==
    /\ workers[w].pc = "lookup"
    /\ \E l \in {lookup(Cache, workers[w].key, now)} :
           /\ SetCache(l.cache)
           /\ mutex' = None
           /\ workers' = [workers EXCEPT
                              ![w] = IF l.hit
                                     THEN [Done EXCEPT !.answer = "cache"]
                                     ELSE [@ EXCEPT !.pc = "waiting",
                                                    !.sent = @ + 1]]
    /\ UNCHANGED <<now, aborted, upstream, workers_frame>>

\* The response of w is one Cache::store stores: the request has a key and
\* the policy gives the decorated response a max-age.
Cachable(key, resp) == key.some /\ get_max_age(decorate(resp)).some

\* Faulty variant of WorkerReceive: a request that failed is sent to upstream
\* once more. C39_OneUpstreamRequest does not survive it.
WorkerReceive_Retries(w) ==
    \E h \in Heads(upstream) :
        /\ workers[w].pc = "waiting"
        /\ upstream # "silent"
        /\ workers' = [workers EXCEPT
                           ![w] = IF ~h.ok /\ workers[w].sent < 2
                                  THEN [@ EXCEPT !.sent = @ + 1]
                                  ELSE IF ~h.ok
                                  THEN [Done EXCEPT !.sent = workers[w].sent,
                                                    !.answer = "502"]
                                  ELSE IF Cachable(workers[w].key, h.response)
                                  THEN [@ EXCEPT !.pc = "store", !.step = 1,
                                                 !.response = h.response]
                                  ELSE [Done EXCEPT !.sent = workers[w].sent,
                                                    !.answer = "upstream"]]
        /\ UNCHANGED <<lru_vars, upstream, mutex, workers_frame>>

\* client.request resolves and the closure of lines 100-133 runs up to
\* Cache::store, line 215: an error is answered with the 502, a response that
\* is not stored is handed on as it streams, and for one that is stored the
\* steps of store begin.
WorkerReceive(w) ==
    \E h \in Heads(upstream) :
        /\ workers[w].pc = "waiting"
        /\ upstream # "silent"
        /\ workers' = [workers EXCEPT
                           ![w] = IF ~h.ok
                                  THEN [Done EXCEPT !.sent = workers[w].sent,
                                                    !.answer = "502"]
                                  ELSE IF Cachable(workers[w].key, h.response)
                                  THEN [@ EXCEPT !.pc = "store", !.step = 1,
                                                 !.response = h.response]
                                  ELSE [Done EXCEPT !.sent = workers[w].sent,
                                                    !.answer = "upstream"]]
        /\ UNCHANGED <<lru_vars, upstream, mutex, workers_frame>>

\* The step of Cache::store the worker w has come to.
NextStep(w) ==
    IF workers[w].pc = "store" THEN store_steps[workers[w].step] ELSE "none"

\* lib.rs 221: body.concat2().wait() returns with the bytes of the body, or
\* with the error of the stream, on which the unwrap panics (a guard that is
\* held is dropped by the unwinding and the mutex is poisoned).
WorkerDrain(w) ==
    /\ NextStep(w) = "drain"
    /\ upstream # "silent"
    /\ \/ /\ workers' = [workers EXCEPT ![w].step = @ + 1]
          /\ mutex' = mutex
          /\ aborted' = aborted
       \/ /\ workers' = [workers EXCEPT
                             ![w] = [Panicked EXCEPT !.sent = workers[w].sent]]
          /\ mutex' = IF mutex = w THEN None ELSE mutex
          /\ aborted' = IF mutex = w THEN "body_failed" ELSE aborted
    /\ UNCHANGED <<map, list, current_memory_size, max_memory_size, now,
                   upstream, workers_frame>>

\* Faulty variant of WorkerLock: lock() returns although another worker holds
\* the mutex. C38_StoreSerialized does not survive it.
WorkerLock_NoWait(w) ==
    /\ NextStep(w) = "lock"
    /\ mutex' = IF Poisoned THEN mutex ELSE w
    /\ workers' = [workers EXCEPT
                       ![w] = IF Poisoned
                              THEN [LockFailed EXCEPT !.sent = workers[w].sent]
                              ELSE [@ EXCEPT !.step = @ + 1]]
    /\ UNCHANGED <<lru_vars, upstream, workers_frame>>

\* lib.rs 223: lock() returns once no other worker holds the mutex, with the
\* guard, or with an error if the mutex is poisoned, on which the unwrap
\* panics.
WorkerLock(w) ==
    /\ NextStep(w) = "lock"
    /\ mutex = None
    /\ mutex' = IF Poisoned THEN None ELSE w
    /\ workers' = [workers EXCEPT
                       ![w] = IF Poisoned
                              THEN [LockFailed EXCEPT !.sent = workers[w].sent]
                              ELSE [@ EXCEPT !.step = @ + 1]]
    /\ UNCHANGED <<lru_vars, upstream, workers_frame>>

\* The max-age of the response the worker w stores.
WorkerMaxAge(w) == get_max_age(decorate(workers[w].response)).v

\* lib.rs 224-235 and cache.rs 155-156, under the mutex: the entry is built,
\* its expiry is computed, which panics if the sum is no instant, and insert
\* sweeps the expired entries and removes the entry under the key.
WorkerInsert(w) ==
    /\ NextStep(w) = "insert"
    /\ IF fits_instant(now, WorkerMaxAge(w))
       THEN /\ \E old \in {remove(remove_expired(Cache, now), workers[w].key.v)} :
                   SetCache(old.cache)
            /\ workers' = [workers EXCEPT ![w].step = @ + 1,
                                          ![w].expires = now + WorkerMaxAge(w)]
            /\ UNCHANGED <<aborted, mutex>>
       ELSE /\ workers' = [workers EXCEPT
                               ![w] = [Panicked EXCEPT !.sent = workers[w].sent]]
            /\ aborted' = "instant_overflow"
            /\ mutex' = None
            /\ UNCHANGED <<map, list, current_memory_size>>
    /\ UNCHANGED <<now, upstream, workers_frame>>

\* The entry the worker w stores: the head of the decorated response and the
\* bytes of its body.
WorkerEntry(w) ==
    CachedResponse(decorate(workers[w].response), concat2(workers[w].response.body))

\* cache.rs 158-176 and lib.rs 238, under the mutex: insert makes room and
\* stores the entry, the response is rebuilt from the bytes, and the guard is
\* dropped at the end of the arm.
WorkerFinish(w) ==
    /\ NextStep(w) = "finish"
    /\ \E r \in {insert_removed([cache |-> Cache, ret |-> None], max_memory_size,
                                workers[w].key.v, WorkerEntry(w),
                                get_memory_size(WorkerEntry(w)),
                                workers[w].expires)} :
           /\ SetCache(r.cache)
           /\ aborted' = r.abort
           /\ mutex' = None
           /\ workers' = [workers EXCEPT
                              ![w] = IF r.abort # "none"
                                     THEN [Panicked EXCEPT !.sent = workers[w].sent]
                                     ELSE [Done EXCEPT !.sent = workers[w].sent,
                                                       !.answer = "upstream"]]
    /\ UNCHANGED <<now, upstream, workers_frame>>

\* Upstream goes on accepting connections and stops answering: no head and no
\* rest of a body arrives from it any more.
StallUpstream ==
    /\ upstream = "up"
    /\ upstream' = "silent"
    /\ UNCHANGED <<lru_vars, key_vars, response, max_age_out, forwarded, reply, pc,
                   proxy, result, other_vars>>

\* Upstream answers again.
ResumeUpstream ==
    /\ upstream = "silent"
    /\ upstream' = "up"
    /\ UNCHANGED <<lru_vars, key_vars, response, max_age_out, forwarded, reply, pc,
                   proxy, result, other_vars>>

\* The clock advances while requests are in flight, one instant further than
\* for the store on its own: an entry stored at the last instant of the store
\* expires here too.
WorkersTick ==
    /\ now < MaxTime + 1
    /\ now' = now + 1
    /\ UNCHANGED <<map, list, current_memory_size, max_memory_size, aborted,
                   key_vars, proxy_vars, other_vars>>

\* One step of a request that is in flight on the worker w.
WorkerProgress(w) ==
    \/ WorkerLookup(w)
    \/ WorkerReceive(w)
    \/ WorkerDrain(w)
    \/ WorkerLock(w)
    \/ WorkerInsert(w)
    \/ WorkerFinish(w)

WorkersNext ==
    \/ \E w \in Workers : WorkerCall(w) \/ WorkerProgress(w)
    \/ WorkersTick
    \/ StopUpstream
    \/ StartUpstream
    \/ StallUpstream
    \/ ResumeUpstream

SpecWorkers == WorkersInit /\ [][WorkersNext]_vars

\* The requests of one connection, one after the other: w1 alone. An upstream
\* that has gone silent stays silent.
WorkerNext ==
    \/ WorkerCall("w1")
    \/ WorkerProgress("w1")
    \/ WorkersTick
    \/ StopUpstream
    \/ StartUpstream
    \/ StallUpstream

\* The worker w has come through lock() and has its entry to insert: the
\* condition under which WorkerInsert(w) can happen, and it moves the worker
\* on.
InsertReady(w) == NextStep(w) = "insert"

\* The worker w is inside insert: the condition under which WorkerFinish(w)
\* can happen, and then it releases the mutex.
FinishReady(w) == NextStep(w) = "finish"

\* The runtime runs a task that can take a step: a request in flight takes
\* its next step if that step stays possible. For the two steps of the insert
\* the condition is weak fairness written out, with InsertReady and
\* FinishReady for the enabling conditions. Nothing is assumed of the clients,
\* of upstream or of the clock.
WorkerFair(w) ==
    /\ WF_vars(WorkerLookup(w))
    /\ WF_vars(WorkerReceive(w))
    /\ WF_vars(WorkerDrain(w))
    /\ WF_vars(WorkerLock(w))
    /\ ([]<>(~InsertReady(w)) \/ []<><<WorkerInsert(w)>>_vars)
    /\ ([]<>(~FinishReady(w)) \/ []<><<WorkerFinish(w)>>_vars)

SpecWorkerLive == WorkersInit /\ [][WorkerNext]_vars /\ WorkerFair("w1")

\* ------------------------------------------------ claims on the LRU store

\* Every call insert may be given.
InsertArgs == Keys \X Values \X Sizes \X Expiries

\* insert on the store as it is, at the present instant.
InsertNow(a) == insert(Cache, max_memory_size, a[1], a[2], a[3], a[4], now)

RECURSIVE SumSizes(_, _)
\* The sum of the stored sizes of the entries of m under keys.
SumSizes(m, keys) ==
    IF keys = {}
    THEN 0
    ELSE LET k == CHOOSE x \in keys : TRUE
         IN  m[k].size + SumSizes(m, keys \ {k})

\* The keys of a list.
ListKeys(l) == {l[i] : i \in 1..Len(l)}

\* l without the keys outside keep, order kept.
Restrict(l, keep) == SelectSeq(l, LAMBDA x : x \in keep)

\* C1: after any sequence of calls, used_bytes (current_memory_size) is at most
\* max_bytes (max_memory_size).
C1_UsedWithinMax == current_memory_size <= max_memory_size

\* C1 witness: the budget is used up to the last byte by two entries of
\* different sizes, after the clock has advanced.
C1_Witness ==
    /\ current_memory_size = max_memory_size
    /\ Len(list) = 2
    /\ map[list[1]].size # map[list[2]].size
    /\ now > 0

\* C2: after any sequence of calls, used_bytes is the sum of the stored sizes
\* of all entries resident in the map, expired ones not yet swept included.
C2_UsedIsSum == current_memory_size = SumSizes(map, DOMAIN map)

\* C2 witness: an expired entry is still resident and counted, next to one
\* that has not expired.
C2_Witness ==
    /\ \E k \in DOMAIN map : map[k].expires < now
    /\ \E k \in DOMAIN map : map[k].expires >= now
    /\ current_memory_size >= 2

\* C3: after any sequence of calls, the recency list and the map hold the same
\* keys and no key is twice in the list.
C3_SameKeys ==
    /\ ListKeys(list) = DOMAIN map
    /\ Len(list) = Cardinality(DOMAIN map)

\* C3 witness: two keys are resident and the one inserted first is not the
\* least recently used (a get or a re-insert has reordered the list).
C3_Witness ==
    /\ Len(list) = 2
    /\ list[1] = "/a"
    /\ list[2] = "/"
    /\ map["/"].expires < map["/a"].expires
    /\ now > 0

\* C4 (as claimed): whenever get, peek or contains_key reports a key as present,
\* the entry's expires_at is strictly greater than the current instant.
C4_PresentIsLive ==
    \A k \in Keys :
        /\ \A g \in {get(Cache, k, now)} :
               g.ret # None => g.cache.map[k].expires > now
        /\ peek(Cache, k, now) # None => map[k].expires > now
        /\ contains_key(Cache, k, now) => map[k].expires > now

\* C5 (as claimed): for every store state, key k, value v, size s and expiry
\* t > now, a get of k right after insert(k, v, s, t) returns v.
C5_GetAfterInsert ==
    Running =>
        \A a \in InsertArgs :
            a[4] > now => get(InsertNow(a).cache, a[1], now).ret = a[2]

\* C5 (amended): the same for every size s <= max_bytes.
C5_GetAfterFittingInsert ==
    Running =>
        \A a \in InsertArgs :
            (a[4] > now /\ a[3] <= max_memory_size)
                => get(InsertNow(a).cache, a[1], now).ret = a[2]

\* C5 witness: a fitting insert with t > now that replaces another value under
\* its key and has to evict.
C5_Witness ==
    \E a \in InsertArgs :
        /\ a[4] > now
        /\ a[3] <= max_memory_size
        /\ a[1] \in DOMAIN map
        /\ map[a[1]].value # a[2]
        /\ InsertNow(a).evicted # <<>>

\* What an oversize insert of key leaves of the store: the entries under other
\* keys that have not expired before now.
Kept(key) == {j \in DOMAIN map : j # key /\ map[j].expires >= now}

\* C6 (as claimed): insert with size > max_bytes does not modify the store:
\* by_key, recency and used_bytes are after the call as before it.
C6_OversizeUnchanged ==
    Running =>
        \A a \in InsertArgs :
            a[3] > max_memory_size => InsertNow(a).cache = Cache

\* C6 (amended): insert with size > max_bytes stores nothing and leaves of the
\* store exactly the entries under other keys that have not expired before now:
\* by_key is restricted to them, recency keeps them in their order, and
\* used_bytes is the sum of their sizes.
C6_OversizeSweepsAndRemoves ==
    Running =>
        \A a \in InsertArgs :
            a[3] > max_memory_size =>
                \A r \in {InsertNow(a)} :
                    /\ r.cache.map = [j \in Kept(a[1]) |-> map[j]]
                    /\ r.cache.list = Restrict(list, Kept(a[1]))
                    /\ r.cache.current_memory_size = SumSizes(map, Kept(a[1]))
                    /\ r.abort = "none"

\* C6 witness: an oversize insert under a resident key, with an entry expiring
\* at this very instant and an expired one resident under other keys.
C6_Witness ==
    \E a \in InsertArgs :
        /\ a[3] > max_memory_size
        /\ a[1] \in DOMAIN map
        /\ \E j \in DOMAIN map : j # a[1] /\ map[j].expires = now
        /\ InsertNow(a).cache # Cache

\* What the claims call the prior value of key: the value resident under it.
Prior(key) == IF key \in DOMAIN map THEN map[key].value ELSE None

\* C7 (as claimed): after insert(k, v, s, t) with s > max_bytes the entry under
\* k is removed and its prior value returned, and every entry under another
\* key, and the relative recency order of those keys, is as before.
C7_OversizeFrame ==
    Running =>
        \A a \in InsertArgs :
            a[3] > max_memory_size =>
                \A r \in {InsertNow(a)} :
                    /\ r.ret = Prior(a[1])
                    /\ a[1] \notin DOMAIN r.cache.map
                    /\ \A j \in (DOMAIN map) \ {a[1]} :
                           j \in DOMAIN r.cache.map /\ r.cache.map[j] = map[j]
                    /\ Restrict(r.cache.list, (DOMAIN map) \ {a[1]})
                           = Restrict(list, (DOMAIN map) \ {a[1]})

\* C7 (amended): after insert(k, v, s, t) with s > max_bytes no entry is under
\* k, the prior value of k is returned if its entry had not expired before now
\* (None if it had, or if there was none), and every entry under another key
\* that has not expired before now, and the relative recency order of those
\* keys, is as before.
C7_OversizeFrameUnexpired ==
    Running =>
        \A a \in InsertArgs :
            a[3] > max_memory_size =>
                \A r \in {InsertNow(a)} :
                    /\ r.ret = IF a[1] \in DOMAIN map /\ map[a[1]].expires >= now
                               THEN map[a[1]].value
                               ELSE None
                    /\ a[1] \notin DOMAIN r.cache.map
                    /\ \A j \in Kept(a[1]) :
                           j \in DOMAIN r.cache.map /\ r.cache.map[j] = map[j]
                    /\ Restrict(r.cache.list, Kept(a[1]))
                           = Restrict(list, Kept(a[1]))

\* C7 witness: an oversize insert under a resident, unexpired key that is the
\* least recently used of three, so that two unexpired entries stay in order.
C7_Witness ==
    \E a \in InsertArgs :
        /\ a[3] > max_memory_size
        /\ Len(list) >= 3
        /\ list[1] = a[1]
        /\ Cardinality(Kept(a[1])) >= 2
        /\ InsertNow(a).ret \in Values

\* C8: a successful get(k) moves k to the back of the recency list, and when
\* the next insert has to evict for budget while at least one other entry is
\* resident, k is not the first entry evicted. The state a successful get(k)
\* leaves is a reachable state with k at the back of the list, and it stays
\* one while the clock advances; so the second half is stated of every
\* reachable state and the key at the back of its list. An entry is resident
\* when the eviction starts if it has not expired before now and is not under
\* the key being inserted.
C8_GetProtects ==
    Running =>
        /\ \A k \in Keys :
               \A g \in {get(Cache, k, now)} :
                   g.ret # None =>
                       /\ g.cache.list # <<>>
                       /\ g.cache.list[Len(g.cache.list)] = k
        /\ \A a \in InsertArgs :
               \A r \in {InsertNow(a)} :
                   (/\ list # <<>>
                    /\ r.evicted # <<>>
                    /\ \E j \in Kept(a[1]) : j # list[Len(list)])
                       => r.evicted[1] # list[Len(list)]

\* C8 witness: a get of the least recently used of two resident keys succeeds,
\* and an insert of a third key into the store it leaves has to evict.
C8_Witness ==
    \E k \in Keys, a \in InsertArgs :
        LET g == get(Cache, k, now)
            r == insert(g.cache, max_memory_size, a[1], a[2], a[3], a[4], now)
        IN  /\ g.ret # None
            /\ Len(list) = 2
            /\ list[1] = k
            /\ a[1] \notin DOMAIN map
            /\ r.evicted # <<>>
            /\ k \in DOMAIN r.cache.map

\* C9: an entry whose size is exactly max_bytes is accepted by insert when no
\* other entry is resident: afterwards the key is resident and used_bytes is
\* max_bytes.
C9_ExactSizeFits ==
    Running =>
        \A a \in InsertArgs :
            (a[3] = max_memory_size /\ (DOMAIN map) \ {a[1]} = {}) =>
                \A r \in {InsertNow(a)} :
                    /\ r.abort = "none"
                    /\ a[1] \in DOMAIN r.cache.map
                    /\ r.cache.map[a[1]].size = max_memory_size
                    /\ r.cache.current_memory_size = max_memory_size

\* C9 witness: the store holds one entry, of exactly max_bytes, after the clock
\* has advanced.
C9_Witness ==
    /\ Cardinality(DOMAIN map) = 1
    /\ \E k \in DOMAIN map : map[k].size = max_memory_size
    /\ current_memory_size = max_memory_size
    /\ max_memory_size > 1
    /\ now > 0

\* ------------------------------------------------ claims on key derivation

\* A session cookie is carried by some Cookie header of the request.
CarriesSession(req) ==
    \E i \in 1..Len(req.cookies) : is_match(req.cookies[i])

\* C10 (as claimed): cache_key returns None when the method is not GET, None
\* when a GET carries a Cookie header whose value matches SESS[A-Za-z0-9_]+=,
\* whichever Cookie header of the request carries it, and otherwise Some of the
\* request URI string.
C10_KeyDerivation ==
    key_out.done =>
        key_out.key =
            IF request.method # "GET" \/ CarriesSession(request)
            THEN NoKey
            ELSE SomeKey(uri_to_string(request.uri))

\* -------------------------------------- claims on the cachability policy

\* The Cache-Control values of a response that are text.
TextValues(resp) == SelectSeq(get_all(resp.headers, "cache-control"), to_str_ok)

RECURSIVE Tokens(_)
\* The tokens of a sequence of values: what stands between the commas, value
\* after value.
Tokens(values) ==
    IF values = <<>>
    THEN <<>>
    ELSE split(Head(values), ",") \o Tokens(Tail(values))

\* A token of the form max-age=<value>.
IsMaxAge(token) ==
    /\ Len(split(token, "=")) = 2
    /\ split(token, "=")[1] = MAX_AGE

\* The max-age the tokens give: the number the last max-age token writes, 0 when
\* that is no unsigned integer or when there is no such token.
ParsedMaxAge(tokens) ==
    IF \E i \in 1..Len(tokens) : IsMaxAge(tokens[i])
    THEN LET i == CHOOSE x \in 1..Len(tokens) :
                      /\ IsMaxAge(tokens[x])
                      /\ \A y \in (x + 1)..Len(tokens) : ~IsMaxAge(tokens[y])
             r == parse(split(tokens[i], "=")[2])
         IN  IF r.ok THEN r.value ELSE 0
    ELSE 0

\* The policy as the claims state it, on a sequence of tokens.
Policy(tokens) ==
    IF /\ \E i \in 1..Len(tokens) : tokens[i] = PUBLIC
       /\ ParsedMaxAge(tokens) > 0
    THEN SomeAge(ParsedMaxAge(tokens))
    ELSE NoAge

RECURSIVE Trim(_)
\* A token without the spaces around it.
Trim(token) ==
    IF token # <<>> /\ Head(token) = " "
    THEN Trim(Tail(token))
    ELSE IF token # <<>> /\ token[Len(token)] = " "
    THEN Trim(SubSeq(token, 1, Len(token) - 1))
    ELSE token

\* The tokens, each trimmed.
Trimmed(tokens) == [i \in 1..Len(tokens) |-> Trim(tokens[i])]

\* C12 (as claimed): tokens are trimmed of surrounding whitespace after the
\* split at the commas, so get_max_age gives what the policy gives on the
\* trimmed tokens: public, max-age=60 is cachable for 60 seconds, as
\* public,max-age=60 is.
C12_TokensTrimmed ==
    max_age_out.done =>
        max_age_out.age = Policy(Trimmed(Tokens(TextValues(response))))

\* ------------------------------------------------ claims on the rewriter

\* C18: the request upstream sees carries every X-Forwarded-For value the
\* client sent, in the client's order, then the IP of the source peer as one
\* more value, and carries X-Forwarded-Port with the listen port in decimal
\* (after any value the client sent under that name).
C18_ForwardedHeaders ==
    pc = "waiting" =>
        /\ get_all(forwarded.headers, "x-forwarded-for")
               = Append(get_all(request.headers, "x-forwarded-for"),
                        ip_to_string(proxy.source_address))
        /\ get_all(forwarded.headers, "x-forwarded-port")
               = Append(get_all(request.headers, "x-forwarded-port"),
                        to_string(proxy.port))
        /\ proxy.port = 9090 =>
               get_all(forwarded.headers, "x-forwarded-port")
                       [Len(get_all(forwarded.headers, "x-forwarded-port"))]
                   = <<"9", "0", "9", "0">>

\* C18 witness: the client sent two X-Forwarded-For values and an
\* X-Forwarded-Port, and upstream sees three and two values.
C18_Witness ==
    /\ pc = "waiting"
    /\ Len(get_all(request.headers, "x-forwarded-for")) = 2
    /\ Len(get_all(forwarded.headers, "x-forwarded-for")) = 3
    /\ get_all(forwarded.headers, "x-forwarded-for")[3]
           = <<"1", "0", ".", "0", ".", "0", ".", "7">>
    /\ Len(get_all(forwarded.headers, "x-forwarded-port")) = 2

\* ----------------------------------------------- claims on the decorator

C20_ServerOnce ==
    pc = "done" =>
        /\ get_all(reply.headers, "server")
               = IF header_contains_key(response.headers, "server")
                 THEN get_all(response.headers, "server")
                 ELSE <<RUSTNISH>>
        /\ \A twice \in {decorate(reply)} :
               /\ Len(get_all(twice.headers, "via"))
                      = Len(get_all(response.headers, "via")) + 2
               /\ get_all(twice.headers, "server") = get_all(reply.headers, "server")
               /\ Len(get_all(response.headers, "server")) <= 1
                      => Len(get_all(twice.headers, "server")) = 1

\* C20 witness: upstream sent no Server and no Via header, and the decorated
\* response has Server: rustnish and one Via line.
C20_Witness ==
    /\ pc = "done"
    /\ response.headers = NoHeaders
    /\ get_all(reply.headers, "server") = <<RUSTNISH>>
    /\ Len(get_all(reply.headers, "via")) = 1

\* -------------------------------------------------- claims on the proxy

\* The entry under key k is live: resident and not yet at its expiry.
Live(k) == k \in DOMAIN map /\ map[k].expires > now

\* What Proxy::call does with a request, in the present state.
CallNow(req) == call(Cache, req, proxy, now)

\* What the closure does with an exchange, for the request in flight.
ThenNow(x) == upstream_then(Cache, max_memory_size, key_out.key, x[1], x[2], now)

\* C13: a GET request that has a key for which a live entry exists is answered
\* from the cache, with the stored response as it is (the decorator does not
\* run) and without a request to upstream; so a GET whose response was stored
\* is answered with the stored 200 while the entry lives, whether upstream is
\* up or down, while a request that is sent to an upstream that is down is
\* answered with 502.
C13_HitSkipsUpstream ==
    /\ Running =>
           \A req \in ProxyRequests :
               \A r \in {CallNow(req)} :
                   (r.key.some /\ Live(r.key.v)) =>
                       /\ r.hit
                       /\ r.reply = rehydrate(map[r.key.v].value)
                       /\ r.forwarded = NoRequest
    /\ (pc = "done" /\ result.ok /\ key_out.key.some /\ max_age_out.age.some
            /\ get_memory_size(CachedResponse(reply, concat2(reply.body)))
                   <= max_memory_size) =>
           /\ key_out.key.v \in DOMAIN map
           /\ rehydrate(map[key_out.key.v].value) = reply
    /\ (pc = "waiting" /\ upstream = "down") =>
           \A x \in Exchanges(upstream) : ThenNow(x).reply = BadGateway

\* C13 witness: with upstream down, a GET of / has been answered from the
\* cache with the 200 stored before, Via and Server as the decorator left them
\* at store time.
C13_Witness ==
    /\ pc = "done"
    /\ upstream = "down"
    /\ result = NoResult
    /\ request.method = "GET"
    /\ request.uri.path = "/"
    /\ reply.status = 200
    /\ Len(get_all(reply.headers, "via")) = 1
    /\ "/test" \notin DOMAIN map

\* C14 (as claimed): a response is not served from the cache once max-age
\* seconds have passed since it was stored: a request answered from the cache
\* finds an entry whose expiry, the instant of the store plus max-age, is
\* still ahead.
C14_NotServedPastMaxAge ==
    Running =>
        \A req \in ProxyRequests :
            \A r \in {CallNow(req)} :
                r.hit => map[r.key.v].expires > now

\* C15 (as claimed): a request that carries a session cookie is never answered
\* from the cache: it is sent to upstream.
C15_SessionBypass ==
    Running =>
        \A req \in ProxyRequests :
            CarriesSession(req) => ~CallNow(req).hit

\* The store c holds an entry that the present store does not hold.
Inserted(c) ==
    \E k \in DOMAIN c.map : k \notin DOMAIN map \/ c.map[k] # map[k]

\* C16 (as claimed): an entry is inserted only when the request is a GET
\* without session cookie, upstream returned a response and the policy
\* returned a TTL for it.
C16_InsertOnlyWhenCachable ==
    (Running /\ pc = "waiting") =>
        \A x \in Exchanges(upstream) :
            Inserted(ThenNow(x).cache) =>
                /\ request.method = "GET"
                /\ ~CarriesSession(request)
                /\ x[1].ok
                /\ get_max_age(decorate(x[2])).some

\* The exchange x failed: client.request returned an error, or the body of
\* the response stopped before its end.
Failed(x) == ~x[1].ok \/ x[1].received < Len(x[2].body)

\* C17 (as claimed): whatever fails in the exchange with upstream (connect,
\* read, malformed response), the client is answered with 502 and the body
\* `Something went wrong, please try again later.`.
C17_FailureIsBadGateway ==
    (Running /\ pc = "waiting") =>
        \A x \in Exchanges(upstream) :
            Failed(x) =>
                /\ ThenNow(x).pc = "done"
                /\ ThenNow(x).reply = BadGateway

\* ------------------------------------ claims on responses stored and passed

\* The response x[2] of the exchange x is stored by the closure: the request
\* in flight has a key, the exchange succeeded with the whole body, the policy
\* gives the decorated response a max-age, and the entry is resident after.
Stored(x) ==
    /\ key_out.key.some
    /\ x[1].ok
    /\ x[1].received = Len(x[2].body)
    /\ get_max_age(decorate(x[2])).some
    /\ ThenNow(x).abort = "none"
    /\ key_out.key.v \in DOMAIN ThenNow(x).cache.map

\* The responses a and b have the same status, version, header multimap
\* (names, values, duplicates and order) and body bytes.
SameResponse(a, b) ==
    /\ a.status = b.status
    /\ a.version = b.version
    /\ a.headers = b.headers
    /\ concat2(a.body) = concat2(b.body)

\* C21: when the closure stores a response, the response delivered to the
\* client that primed the cache, and the response every later lookup of the
\* key rebuilds from the entry, have the status, version, header multimap
\* (duplicates and order included) and body bytes of the decorated upstream
\* response.
C21_Lossless ==
    (Running /\ pc = "waiting") =>
        \A x \in Exchanges(upstream) :
            Stored(x) =>
                \A r \in {ThenNow(x)} :
                    /\ SameResponse(r.reply, decorate(x[2]))
                    /\ \A t \in now..(MaxTime + 1) :
                           \A l \in {lookup(r.cache, key_out.key, t)} :
                               l.hit => SameResponse(l.response, decorate(x[2]))

\* C21 witness: a response of two chunks that came with a Via line of its own
\* has been stored, and the entry holds the two bytes and both Via values.
C21_Witness ==
    /\ pc = "done"
    /\ result.ok
    /\ Len(response.body) = 2
    /\ key_out.key.some
    /\ key_out.key.v \in DOMAIN map
    /\ map[key_out.key.v].value.body = <<"a", "b">>
    /\ Len(get_all(map[key_out.key.v].value.headers, "via")) = 2
    /\ rehydrate(map[key_out.key.v].value) = reply

\* C27: a response of upstream with a 4xx or 5xx status that arrives whole is
\* no failure: it is decorated and passed on with its own status and body, and
\* it is stored under the key of the request when the request has one, the
\* policy gives the response a max-age and the entry fits the budget.
C27_OriginErrorsPassThrough ==
    (Running /\ pc = "waiting") =>
        \A x \in Exchanges(upstream) :
            (x[1].ok /\ x[1].received = Len(x[2].body) /\ x[2].status >= 400) =>
                \A r \in {ThenNow(x)} :
                    /\ r.pc = "done"
                    /\ r.reply.status = x[2].status
                    /\ SameResponse(r.reply, decorate(x[2]))
                    /\ (/\ key_out.key.some
                        /\ get_max_age(decorate(x[2])).some
                        /\ get_memory_size(CachedResponse(r.reply, concat2(r.reply.body)))
                               <= max_memory_size) =>
                           /\ key_out.key.v \in DOMAIN r.cache.map
                           /\ rehydrate(r.cache.map[key_out.key.v].value) = r.reply

\* C27 witness: a GET was answered with the 404 of upstream, decorated, and
\* the 404 is resident under the key of the request.
C27_Witness ==
    /\ pc = "done"
    /\ result.ok
    /\ response.status = 404
    /\ reply.status = 404
    /\ reply.body = << <<"n">> >>
    /\ get_all(reply.headers, "via") # <<>>
    /\ key_out.key.some
    /\ key_out.key.v \in DOMAIN map
    /\ map[key_out.key.v].value.status = 404

\* ------------------------------------- claims on the frame of the rewriter

\* The names of a header map, in the order of the map.
HeaderNames(headers) == [i \in 1..Len(headers) |-> headers[i].name]

\* The two names the rewriter appends a value under.
ForwardingNames == {"x-forwarded-for", "x-forwarded-port"}

\* C28: the rewriter changes the target and adds the two forwarding headers,
\* nothing else. For every method, the request upstream sees has the method,
\* the HTTP version, the body and the cookies of the client's request; every
\* header of the client's request is there, in place and with its values, the
\* two forwarding names with one more value each, and no other name is added;
\* the target is http://127.0.0.1:<upstream_port><path>, with ?<query> when
\* the request has a query, whatever authority the client's target named.
C28_RewriterFrame ==
    pc = "waiting" =>
        /\ forwarded.method = request.method
        /\ forwarded.version = request.version
        /\ forwarded.body = request.body
        /\ forwarded.cookies = request.cookies
        /\ SubSeq(HeaderNames(forwarded.headers), 1, Len(request.headers))
               = HeaderNames(request.headers)
        /\ \A i \in 1..Len(forwarded.headers) :
               \/ forwarded.headers[i].name \in ForwardingNames
               \/ /\ i <= Len(request.headers)
                  /\ forwarded.headers[i] = request.headers[i]
        /\ \A i \in 1..Len(request.headers) :
               \A j \in 1..Len(request.headers[i].values) :
                   forwarded.headers[i].values[j] = request.headers[i].values[j]
        /\ forwarded.uri.scheme = "http"
        /\ forwarded.uri.authority
               = <<"1", "2", "7", ".", "0", ".", "0", ".", "1", ":">>
                     \o to_string(proxy.upstream_port)
        /\ proxy.upstream_port = 9091 =>
               forwarded.uri.authority
                   = <<"1", "2", "7", ".", "0", ".", "0", ".", "1", ":",
                       "9", "0", "9", "1">>
        /\ forwarded.uri.path = request.uri.path
        /\ forwarded.uri.query = request.uri.query

\* C28 witness: a POST over HTTP/1.0 with the body abc, an Accept header and a
\* target that names another host, with a query, has gone to upstream.
C28_Witness ==
    /\ pc = "waiting"
    /\ request.method = "POST"
    /\ forwarded.method = "POST"
    /\ forwarded.version = "HTTP/1.0"
    /\ forwarded.body = << <<"a", "b", "c">> >>
    /\ request.uri.authority = "example.com"
    /\ forwarded.uri.path = "/test"
    /\ forwarded.uri.query = "a=1"
    /\ get_all(forwarded.headers, "accept") # <<>>

\* ------------------------------------------- claims on the memory footprint

RECURSIVE SumTo(_, _)
\* f[1] + ... + f[n].
SumTo(f, n) == IF n = 0 THEN 0 ELSE f[n] + SumTo(f, n - 1)

\* The bytes of the header lines of an entry: for every line, the bytes of
\* its name and the bytes of its value.
LineBytes(headers) ==
    SumTo([i \in 1..Len(headers) |->
              SumTo([j \in 1..Len(headers[i].values) |->
                        Len(headers[i].name) + Len(headers[i].values[j])],
                    Len(headers[i].values))],
          Len(headers))

\* example_cache_entry of the tests of lib.rs.
ExampleEntry == CachedResponse(Response(200, "HTTP/1.1", NoHeaders, <<>>), <<"a">>)

\* C29: the memory footprint charged for an entry is 128 bytes for the struct
\* plus, over all header lines, the bytes of the name and of the value, plus
\* the length of the body, nothing less: 129 for the entry without headers
\* and a body of one byte, 228 with a body of 100 bytes, 131 when the header
\* a: b is added to the entry of one byte.
C29_MemoryFootprint ==
    memory_size_out.done =>
        /\ memory_size_out.size
               = 128 + LineBytes(cache_entry.headers) + Len(cache_entry.body)
        /\ cache_entry = ExampleEntry => memory_size_out.size = 129
        /\ cache_entry = [ExampleEntry EXCEPT !.body = [i \in 1..100 |-> "a"]] =>
               memory_size_out.size = 228
        /\ cache_entry = [ExampleEntry EXCEPT
                              !.headers = header_insert(@, "a", <<"b">>)] =>
               memory_size_out.size = 131

\* C29 witness: an entry with two values under the name via and a body of 100
\* bytes has been measured.
C29_Witness ==
    /\ memory_size_out.done
    /\ Len(get_all(cache_entry.headers, "via")) = 2
    /\ Len(cache_entry.body) = 100
    /\ memory_size_out.size > 228

\* ------------------------------------------------------- claims on len

\* The entries of the store c that are not expired at t: those whose expiry
\* is after t.
LiveKeys(c, t) == {k \in DOMAIN c.map : c.map[k].expires > t}

\* C30 (as claimed): len() is the number of entries that are not expired and
\* is_empty() says that there is none, whether or not a sweep has run; so
\* when every entry has expired len() is 0, when all entries have size 1 and
\* none is expired the insert of one more unexpired key of size 1 gives
\* min(len() + 1, budget), and when every entry has expired the insert of one
\* unexpired entry that fits gives 1.
C30_LenCountsUnexpired ==
    /\ len(Cache, now) = Cardinality(LiveKeys(Cache, now))
    /\ is_empty(Cache, now) <=> LiveKeys(Cache, now) = {}
    /\ Running =>
           \A a \in InsertArgs :
               (a[1] \notin DOMAIN map /\ a[3] = 1 /\ a[4] > now) =>
                   \A r \in {InsertNow(a)} :
                       /\ (\A k \in DOMAIN map : map[k].size = 1 /\ map[k].expires > now) =>
                              len(r.cache, now)
                                  = IF len(Cache, now) + 1 <= max_memory_size
                                    THEN len(Cache, now) + 1
                                    ELSE max_memory_size
                       /\ (max_memory_size >= 1 /\ LiveKeys(Cache, now) = {}) =>
                              len(r.cache, now) = 1

\* ------------------------------------------------- claims on the server

\* C22: started on a listen port that another socket is bound to,
\* start_server_blocking returns an error, before any connection is accepted,
\* and the message right below the top of the chain of the error is
\* `Failed to bind server to address 127.0.0.1:<listen_port>`.
C22_BindFailure ==
    /\ (server = "stopped" /\ proxy.port \in TakenPorts) =>
           \A r \in {start_server_blocking(proxy.port, TakenPorts)} :
               /\ ~r.ok
               /\ Len(r.chain) >= 2
               /\ r.chain[2] = "Failed to bind server to address 127.0.0.1:"
                                   \o join(to_string(proxy.port))
    /\ server = "failed" =>
           /\ proxy.port \in TakenPorts
           /\ error_chain[2] = "Failed to bind server to address 127.0.0.1:"
                                   \o join(to_string(proxy.port))
           /\ proxy.port = 9091 =>
                  error_chain[2] = "Failed to bind server to address 127.0.0.1:9091"
           /\ \A c \in Connections : connections[c] = "none"

\* C22 witness: the start on port 9091, the port of the upstream that runs,
\* has failed with the bind message second in the chain, the error of the
\* system below it.
C22_Witness ==
    /\ server = "failed"
    /\ proxy.port = 9091
    /\ Len(error_chain) = 3
    /\ error_chain[2] = "Failed to bind server to address 127.0.0.1:9091"
    /\ error_chain[3] = ADDRESS_IN_USE

\* C23 (as claimed): no error on a connection ends the acceptor: whatever
\* connections were opened and then failed, were closed without a request, or
\* used up the resources of the process, a server that has started is still
\* accepting, so that a request on a new connection is answered.
C23_AcceptorSurvives == server \notin {"dead", "finished"}

\* ------------------------------------------ claims on requests side by side

\* The worker w is at a step that reads from upstream: it waits for the head
\* of the response, or it drains the body.
DoesIo(w) == workers[w].pc = "waiting" \/ NextStep(w) = "drain"

\* The worker w has drained the body of its response.
Drained(w) ==
    \E i \in 1..(workers[w].step - 1) : store_steps[i] = "drain"

\* C25: however the requests interleave, the worker that holds the mutex of
\* the cache is not reading from upstream nor draining a body: it is inside
\* lookup, or inside store with the body drained before the mutex was taken,
\* and all it has left under the mutex is the get or the steps of the insert.
C25_NoIoUnderMutex ==
    /\ mutex \in Workers \cup {None}
    /\ \A w \in Workers :
           /\ workers[w].pc = "lookup" => mutex = w
           /\ mutex = w =>
                  /\ ~DoesIo(w)
                  /\ workers[w].pc \in {"lookup", "store"}
                  /\ workers[w].pc = "store" =>
                         /\ Drained(w)
                         /\ NextStep(w) \in {"insert", "finish"}

\* C25 witness: w1 holds the mutex for its insert while w2 drains the body of
\* its response, and an entry is resident.
C25_Witness ==
    /\ mutex = "w1"
    /\ NextStep("w1") = "insert"
    /\ NextStep("w2") = "drain"
    /\ map # EmptyMap

\* The worker w holds the mutex for the insert of a response whose entry is
\* larger than the budget.
Oversize(w) ==
    /\ NextStep(w) = "insert"
    /\ mutex = w
    /\ get_memory_size(CachedResponse(decorate(workers[w].response),
                                      concat2(workers[w].response.body)))
           > max_memory_size

\* What Cache::store does for the worker w, in the present state.
StoreNow(w) ==
    store(Cache, max_memory_size, workers[w].key, decorate(workers[w].response),
          Len(workers[w].response.body), now)

\* C26 (as claimed): a response that may be cached and is larger than the
\* budget is delivered and the cache is left as it was: no resident entry,
\* the one a concurrent request stored under the same key included, is
\* removed or changed.
C26_OversizeLeavesCache ==
    Running =>
        \A w \in Workers :
            Oversize(w) =>
                \A r \in {StoreNow(w)} :
                    /\ SameResponse(r.response, decorate(workers[w].response))
                    /\ r.cache = Cache

\* C26 (amended): a response that may be cached and is larger than the budget
\* is delivered and not stored; the store keeps, unchanged and in their
\* order, the entries under other keys that have not expired before now; the
\* entry under the key of the request, the one a concurrent request stored
\* included, is removed, and so are the entries that expired before now.
C26_OversizeKeepsOthers ==
    Running =>
        \A w \in Workers :
            Oversize(w) =>
                \A r \in {StoreNow(w)} :
                    /\ ~r.panicked
                    /\ SameResponse(r.response, decorate(workers[w].response))
                    /\ r.cache.map = [j \in Kept(workers[w].key.v) |-> map[j]]
                    /\ r.cache.list = Restrict(list, Kept(workers[w].key.v))
                    /\ r.cache.current_memory_size
                           = SumSizes(map, Kept(workers[w].key.v))

\* C26 witness: w2 is about to insert a response that is too large, under a
\* key for which w1 has stored a response since w2 looked it up, and which
\* has not expired.
C26_Witness ==
    /\ Oversize("w2")
    /\ workers["w2"].key.v \in DOMAIN map
    /\ map[workers["w2"].key.v].expires > now
    /\ StoreNow("w2").cache # Cache

\* The request of the worker w is in flight: accepted and not yet answered.
InFlight(w) == workers[w].pc \in {"lookup", "waiting", "store"}

\* C24 (as claimed): no request the proxy has accepted stays in flight for
\* ever: it is answered from the cache, with the response of upstream or
\* with the 502, also when upstream accepts the connection and never answers
\* or never finishes its body. A request ended by the panic of lib.rs 221
\* counts as ended here: the formula is about waiting only.
C24_EveryRequestAnswered ==
    \A w \in Workers : InFlight(w) ~> ~InFlight(w)

\* ------------------------------------------- claims on what insert returns

\* The value under key, if an entry is resident under it that has not expired
\* before now: what the sweep at the start of insert leaves for remove to find.
UnexpiredPrior(key) ==
    IF key \in DOMAIN map /\ map[key].expires >= now THEN map[key].value ELSE None

\* C31 (as claimed): insert returns the value that was resident under the key
\* before the call, and None if none was, whether the new entry is accepted
\* or turned away as too large.
C31_InsertReturnsPrior ==
    Running =>
        \A a \in InsertArgs : InsertNow(a).ret = Prior(a[1])

\* C31 (amended): insert returns the value that was resident under the key
\* before the call if its entry had not expired before now, and None if it
\* had or if none was resident, whether the new entry is accepted or turned
\* away as too large.
C31_InsertReturnsUnexpiredPrior ==
    Running =>
        \A a \in InsertArgs : InsertNow(a).ret = UnexpiredPrior(a[1])

\* C31 witness: under a resident key that has not expired, one insert that is
\* accepted and one that is turned away both return the value; under a
\* resident key that has expired an insert returns None.
C31_Witness ==
    /\ \E a \in InsertArgs, b \in InsertArgs :
           /\ a[1] = b[1]
           /\ a[3] <= max_memory_size
           /\ b[3] > max_memory_size
           /\ InsertNow(a).ret \in Values
           /\ InsertNow(b).ret \in Values
           /\ a[1] \in DOMAIN InsertNow(a).cache.map
    /\ \E a \in InsertArgs :
           /\ a[1] \in DOMAIN map
           /\ map[a[1]].expires < now
           /\ InsertNow(a).ret = None

\* ------------------------------------------------- claims on the eviction

\* The recency list as the loop of insert finds it for an insert under key:
\* the sweep and the remove of key have gone before.
LoopList(key) == Restrict(list, Kept(key))

RECURSIVE PrefixSize(_, _, _)
\* The sum of the sizes stored in m under the first i keys of the list l.
PrefixSize(m, l, i) ==
    IF i = 0 THEN 0 ELSE m[l[i]].size + PrefixSize(m, l, i - 1)

\* used_bytes once the first i keys of the list l are evicted, when it was
\* used before the loop.
UsedAfter(l, used, i) == used - PrefixSize(map, l, i)

\* C32: an insert of an entry with size <= max_bytes evicts exactly the
\* shortest prefix of the recency list, least recently used first, whose
\* removal makes used_bytes + size <= max_bytes: the keys evicted are the
\* first n of the list, in its order; the entry fits once they are gone and
\* did not fit with fewer of them gone; the keys behind them stay in their
\* order and the new key ends at the back of the list. The list is the one
\* the loop finds.
C32_EvictsShortestPrefix ==
    Running =>
        \A key \in Keys :
            \A l \in {LoopList(key)}, used \in {SumSizes(map, Kept(key))} :
                \A a \in {key} \X Values \X Sizes \X Expiries :
                    a[3] <= max_memory_size =>
                        \A r \in {InsertNow(a)} :
                            \A n \in {Len(r.evicted)} :
                                /\ n <= Len(l)
                                /\ r.evicted = SubSeq(l, 1, n)
                                /\ UsedAfter(l, used, n) + a[3] <= max_memory_size
                                /\ \A i \in 0..(n - 1) :
                                       UsedAfter(l, used, i) + a[3] > max_memory_size
                                /\ r.cache.list
                                       = SubSeq(l, n + 1, Len(l)) \o <<a[1]>>
                                /\ r.cache.current_memory_size
                                       = UsedAfter(l, used, n) + a[3]

\* C32 witness: of two entries the loop finds, an insert evicts the least
\* recently used and keeps the other; another insert evicts both.
C32_Witness ==
    /\ Len(list) >= 2
    /\ \E a \in InsertArgs :
           /\ Len(LoopList(a[1])) = 2
           /\ Len(InsertNow(a).evicted) = 1
           /\ InsertNow(a).evicted[1] = LoopList(a[1])[1]
           /\ LoopList(a[1])[2] \in DOMAIN InsertNow(a).cache.map
    /\ \E a \in InsertArgs :
           /\ Len(LoopList(a[1])) = 2
           /\ Len(InsertNow(a).evicted) = 2

\* C33: an insert with size <= max_bytes under a resident key reclaims the
\* bytes of the old entry before it makes room: when the entries under the
\* other keys and the new size fit in max_bytes, no entry is evicted, the
\* entries under the other keys that have not expired are as before and in
\* their order, the value, size and expiry under the key are the new ones,
\* and the key is at the back of the recency list, once.
C33_ReinsertReclaimsFirst ==
    Running =>
        \A a \in InsertArgs :
            (/\ a[1] \in DOMAIN map
             /\ a[3] <= max_memory_size
             /\ SumSizes(map, (DOMAIN map) \ {a[1]}) + a[3] <= max_memory_size) =>
                \A r \in {InsertNow(a)} :
                    /\ r.abort = "none"
                    /\ r.evicted = <<>>
                    /\ DOMAIN r.cache.map = Kept(a[1]) \cup {a[1]}
                    /\ \A j \in Kept(a[1]) : r.cache.map[j] = map[j]
                    /\ r.cache.map[a[1]]
                           = [value |-> a[2], expires |-> a[4], size |-> a[3]]
                    /\ r.cache.list = Restrict(list, Kept(a[1])) \o <<a[1]>>
                    /\ r.cache.current_memory_size
                           = SumSizes(map, Kept(a[1])) + a[3]

\* C33 witness: the key is the least recently used of two resident keys,
\* neither expired, and is inserted again with another value, size and
\* expiry; the new entry fits next to the other one only because the bytes of
\* the old one are reclaimed.
C33_Witness ==
    \E a \in InsertArgs :
        /\ Len(list) = 2
        /\ list[1] = a[1]
        /\ Kept(a[1]) = {list[2]}
        /\ map[a[1]].expires >= now
        /\ map[a[1]].value # a[2]
        /\ map[a[1]].size # a[3]
        /\ map[a[1]].expires # a[4]
        /\ a[3] <= max_memory_size
        /\ map[list[2]].size + a[3] <= max_memory_size
        /\ current_memory_size + a[3] > max_memory_size
        /\ InsertNow(a).cache.list = <<list[2], a[1]>>

\* ----------------------------------------------- claims on the queries

\* C34 (as claimed): peek, contains_key and len leave by_key, the recency
\* order and used_bytes as they are, without promoting and without sweeping,
\* and peek and contains_key report an entry that has expired (expires_at <=
\* now, by the tie-break of the expiry gate) and is still resident as absent.
C34_QueriesDoNotMutate ==
    /\ [][Query => UNCHANGED <<map, list, current_memory_size>>]_vars
    /\ [](\A k \in DOMAIN map :
              map[k].expires <= now =>
                  /\ peek(Cache, k, now) = None
                  /\ ~contains_key(Cache, k, now))

\* ---------------------------------------------------- claims on the sweep

\* The keys of the entries that have not expired before now: what a sweep
\* leaves.
Unexpired == {j \in DOMAIN map : map[j].expires >= now}

\* The store c holds, next to an entry under key, exactly the entries of
\* keys, as they were in the map, in the order they had in the list; its list
\* holds the keys of its map, each once, and its counter is the sum of the
\* sizes resident in it.
SweptTo(c, keys, key) ==
    /\ (DOMAIN c.map) \ {key} \subseteq keys \ {key}
    /\ \A j \in (DOMAIN c.map) \ {key} : c.map[j] = map[j]
    /\ Restrict(c.list, keys \ {key})
           = Restrict(list, (DOMAIN c.map) \ {key})
    /\ ListKeys(c.list) = DOMAIN c.map
    /\ Len(c.list) = Cardinality(DOMAIN c.map)
    /\ c.current_memory_size = PrefixSize(c.map, c.list, Len(c.list))

\* C35 (as claimed): every insert and every get, hit or miss, begins with a
\* sweep that removes the entries that expired before now from by_key and
\* from recency and subtracts their sizes, and when the call returns no
\* resident entry has an expires_at before the instant of the call.
C35_NoneExpiredAfter ==
    Running =>
        /\ \A a \in InsertArgs :
               \A r \in {InsertNow(a)} :
                   /\ SweptTo(r.cache, Unexpired, a[1])
                   /\ \A j \in DOMAIN r.cache.map : r.cache.map[j].expires >= now
        /\ \A k \in Keys :
               \A g \in {get(Cache, k, now)} :
                   /\ SweptTo(g.cache, Unexpired, k)
                   /\ DOMAIN g.cache.map = Unexpired
                   /\ \A j \in DOMAIN g.cache.map : g.cache.map[j].expires >= now

\* C35 (amended): the same, but for the entry an insert has just stored,
\* which is resident when insert returns whatever its expires_at.
C35_SweepFirst ==
    Running =>
        /\ \A a \in InsertArgs :
               \A r \in {InsertNow(a)} :
                   /\ SweptTo(r.cache, Unexpired, a[1])
                   /\ \A j \in (DOMAIN r.cache.map) \ {a[1]} :
                          r.cache.map[j].expires >= now
                   /\ (a[1] \in DOMAIN r.cache.map /\ r.cache.map[a[1]].expires < now)
                          => r.cache.map[a[1]].expires = a[4]
        /\ \A k \in Keys :
               \A g \in {get(Cache, k, now)} :
                   /\ SweptTo(g.cache, Unexpired, k)
                   /\ DOMAIN g.cache.map = Unexpired
                   /\ \A j \in DOMAIN g.cache.map : g.cache.map[j].expires >= now

\* C35 witness: an entry that expired before now is resident next to one that
\* has not; a get that misses and a get that hits both sweep it, and so does
\* an insert, which stores an entry that expired before now.
C35_Witness ==
    /\ \E j \in DOMAIN map : map[j].expires < now
    /\ \E k \in Keys :
           /\ get(Cache, k, now).ret = None
           /\ get(Cache, k, now).cache.map # map
           /\ get(Cache, k, now).cache.map # EmptyMap
    /\ \E k \in Keys :
           /\ get(Cache, k, now).ret # None
           /\ get(Cache, k, now).cache.map # map
    /\ \E a \in InsertArgs :
           /\ a[4] < now
           /\ a[1] \in DOMAIN InsertNow(a).cache.map
           /\ Cardinality(DOMAIN InsertNow(a).cache.map) = 2

\* ------------------------------------------------- claims on totality

\* C36: the operations of the store are total: whatever calls came before,
\* neither expect() of the loop of insert panics. The list is not empty while
\* the loop still has to evict, and every key it pops is in by_key. Insert is
\* taken in every state the store reaches, with every key, value, size and
\* expiry, and records in aborted the expect() that panicked: none has.
C36_InsertNeverAborts == aborted = "none"

\* C36 witness: an insert empties the list, of two entries at least, one of
\* them expired, and stops there.
C36_Witness ==
    \E a \in InsertArgs :
        /\ Len(list) >= 2
        /\ \E j \in DOMAIN map : map[j].expires < now
        /\ InsertNow(a).evicted # <<>>
        /\ InsertNow(a).cache.list = <<a[1]>>
        /\ a[1] \notin DOMAIN map

\* ------------------------------------- claims on the store under contention

\* C37 (as claimed): once a worker has drained the body of a response that is
\* stored, its entry is inserted: the worker leaves Cache::store only through
\* the insert and with its response, whatever the clients and the other
\* requests do in between.
C37_BufferedIsStored ==
    [][\A w \in Workers :
           (/\ workers[w].pc = "store"
            /\ Drained(w)
            /\ workers'[w].pc # "store")
               => (/\ NextStep(w) = "finish"
                   /\ workers'[w].pc = "done")]_vars

\* The store of the workers is within its budget, its counter is the sum of
\* the sizes resident and its list holds the keys of its map, each once.
StoreInvariants(c, max) ==
    /\ c.current_memory_size <= max
    /\ c.current_memory_size = SumSizes(c.map, DOMAIN c.map)
    /\ ListKeys(c.list) = DOMAIN c.map
    /\ Len(c.list) = Cardinality(DOMAIN c.map)

\* What the last step of the insert of the worker w makes of the store, in
\* the present state.
FinishNow(w) ==
    insert_removed([cache |-> Cache, ret |-> None], max_memory_size,
                   workers[w].key.v, WorkerEntry(w),
                   get_memory_size(WorkerEntry(w)), workers[w].expires)

\* C38: the workers share one store behind one mutex. However the requests
\* interleave, a worker that is inside lookup or inside the insert of store
\* holds the mutex, so no two are; whenever the mutex is free the store is
\* within its budget, its counter is the sum of the sizes resident and its
\* list holds the keys of its map, each once, so that no key has two
\* entries; and when a worker ends its insert, the entry under its key is
\* the one it inserts, whatever another worker stored for the key before.
C38_StoreSerialized ==
    /\ \A w \in Workers :
           (workers[w].pc = "lookup" \/ NextStep(w) \in {"insert", "finish"})
               => mutex = w
    /\ mutex = None => StoreInvariants(Cache, max_memory_size)
    /\ \A w \in Workers :
           NextStep(w) = "finish" =>
               \A r \in {FinishNow(w)} :
                   /\ r.abort = "none"
                   /\ StoreInvariants(r.cache, max_memory_size)
                   /\ get_memory_size(WorkerEntry(w)) <= max_memory_size =>
                          /\ r.cache.map[workers[w].key.v].value = WorkerEntry(w)
                          /\ r.cache.list[Len(r.cache.list)] = workers[w].key.v

\* C38 witness: w1 and w2 both missed on the same key and both went to
\* upstream; w1 has stored its response, and w2 holds the mutex to insert
\* another response under the key.
C38_Witness ==
    /\ workers["w1"].pc = "done"
    /\ workers["w1"].answer = "upstream"
    /\ NextStep("w2") = "insert"
    /\ workers["w2"].sent = 1
    /\ mutex = "w2"
    /\ workers["w2"].key.v \in DOMAIN map
    /\ map[workers["w2"].key.v].value # WorkerEntry("w2")
    /\ get_memory_size(WorkerEntry("w2")) <= max_memory_size
    /\ fits_instant(now, WorkerMaxAge("w2"))

\* C39: a request of a client makes the proxy call upstream once at most:
\* not at all while it is looked up and when it is answered from the cache,
\* once when it waits for upstream, when its response is stored and when it
\* is answered with the response of upstream or with the 502. A request that
\* failed is not sent again.
C39_OneUpstreamRequest ==
    \A w \in Workers :
        /\ workers[w].sent <= 1
        /\ workers[w].pc = "lookup" => workers[w].sent = 0
        /\ workers[w].pc \in {"waiting", "store", "panicked"} => workers[w].sent = 1
        /\ workers[w].pc = "done" =>
               /\ workers[w].answer \in {"cache", "upstream", "502"}
               /\ workers[w].answer = "cache" => workers[w].sent = 0
               /\ workers[w].answer \in {"upstream", "502"} => workers[w].sent = 1

\* C39 witness: one request was answered from the cache and another with the
\* 502, after upstream failed it.
C39_Witness ==
    /\ workers["w1"].pc = "done"
    /\ workers["w1"].answer = "cache"
    /\ workers["w2"].pc = "done"
    /\ workers["w2"].answer = "502"
    /\ workers["w2"].sent = 1

\* C40 (as claimed): contention on the mutex of the cache makes a worker wait
\* and never makes its request fail: no lock() of lookup or of store ends in a
\* panic.
C40_LockNeverFails ==
    \A w \in Workers : workers[w].pc # "lock_failed"

====
